---- MODULE Spec2Model ----
(***************************************************************************)
(* A model of the scylla-rust-wrapper result / iterator / metadata layer   *)
(* (src/scylla-rust-wrapper/src/{iterator,query_result,metadata}.rs).      *)
(*                                                                         *)
(* The module holds several specifications over one set of variables; each *)
(* specification drives one component and leaves the variables of the      *)
(* other components at their initial value:                                *)
(*   Spec        the iterator engine (iterator.rs)                         *)
(*   SpecTable   table metadata construction and column-at-index           *)
(*   SpecGraph   the keyspace / table / view ownership graph              *)
(*   SpecDecode  the raw value decoder (CassRawValue::deserialize)         *)
(*   SpecResult  the result column-metadata accessors                      *)
(*                                                                         *)
(* Conventions.  A Rust Option is a sequence of length 0 (None) or 1       *)
(* (Some).  A handle returned through the C API is a pair <<tag, index>>   *)
(* naming the element of the source it points at; the null handle is Null. *)
(* A string is a sequence of ASCII codes.                                  *)
(***************************************************************************)
EXTENDS Integers, Sequences, FiniteSets, TLC

VARIABLES
    iter,        \* the CassIterator behind the iterator handle, or NoIter
    log,         \* results of the cass_iterator_next calls made on iter
    out,         \* what the last API call returned
    op,          \* name of the last API call
    aborted,     \* TRUE once a call has panicked (the process is gone)
    table_metadata,   \* the driver's description of a table, or NoTable
    cass_table_meta,  \* the CassTableMeta built from it, or NoTable
    keyspace,         \* CassKeyspaceMeta: the tables and views its maps hold
    table_arcs,       \* the Arc<CassTableMeta> allocations
    view_arcs,        \* the Arc<CassMaterializedViewMeta> allocations
    column,           \* a column's type and the slice the frame holds for it
    raw_value,        \* what CassRawValue::deserialize made of it, once called
    cass_result,      \* a CassResult whose column metadata is asked for
    paging_state_response,  \* its paging_state_response field
    payload,   \* the QueryResult handed to from_result_payload
    built,   \* what from_result_payload returned, once called
    shared_data,   \* the Arc<CassRowsResultSharedData> allocation
    result_state,  \* how far the drop of the built CassResult has got
    shared_result,   \* the CassResult behind the shared handles
    result_arc,   \* its allocation: strong count and deallocations
    result_handles,  \* per thread: its handle and where its cass_result_free stands
    source,   \* what the iterators were built over, and the allocation that owns it
    iterators,  \* the iterator allocations of the caller, by slot
    meta_node,  \* the metadata node looked into: its kind and the keys of its maps
    cursor,   \* a lazily decoding iterator: its kind and the struct
    returns,  \* what its next() calls returned, in order
    frame   \* the rows of a response frame, each the slices of its columns

callVars == <<out, op, aborted>>
iterVars == <<iter, log>>
tableVars == <<table_metadata, cass_table_meta>>
graphVars == <<keyspace, table_arcs, view_arcs>>
decodeVars == <<column, raw_value>>
resultVars == <<cass_result, paging_state_response>>
buildVars == <<payload, built, shared_data, result_state>>
shareVars == <<shared_result, result_arc, result_handles>>
borrowVars == <<source, iterators>>
lookupVars == <<meta_node>>
lazyVars == <<cursor, returns>>
frameVars == <<frame>>
nonIterVars == <<tableVars, graphVars, decodeVars, resultVars, buildVars, shareVars, borrowVars, lookupVars, lazyVars, frameVars>>
nonTableVars == <<iterVars, graphVars, decodeVars, resultVars, buildVars, shareVars, borrowVars, lookupVars, lazyVars, frameVars>>
nonGraphVars == <<iterVars, tableVars, decodeVars, resultVars, buildVars, shareVars, borrowVars, lookupVars, lazyVars, frameVars>>
nonDecodeVars == <<iterVars, tableVars, graphVars, resultVars, buildVars, shareVars, borrowVars, lookupVars, lazyVars, frameVars>>
nonResultVars == <<iterVars, tableVars, graphVars, decodeVars, buildVars, shareVars, borrowVars, lookupVars, lazyVars, frameVars>>
nonBuildVars == <<iterVars, tableVars, graphVars, decodeVars, resultVars, shareVars, borrowVars, lookupVars, lazyVars, frameVars>>
nonShareVars == <<iterVars, tableVars, graphVars, decodeVars, resultVars, buildVars, borrowVars, lookupVars, lazyVars, frameVars>>
nonBorrowVars == <<iterVars, tableVars, graphVars, decodeVars, resultVars, buildVars, shareVars, lookupVars, lazyVars, frameVars>>
nonLookupVars == <<iterVars, tableVars, graphVars, decodeVars, resultVars, buildVars, shareVars, borrowVars, lazyVars, frameVars>>
nonLazyVars == <<iterVars, tableVars, graphVars, decodeVars, resultVars, buildVars, shareVars, borrowVars, lookupVars, frameVars>>
nonFrameVars == <<iterVars, tableVars, graphVars, decodeVars, resultVars, buildVars, shareVars, borrowVars, lookupVars, lazyVars>>

vars == <<iter, log, out, op, aborted, table_metadata, cass_table_meta,
          keyspace, table_arcs, view_arcs, column, raw_value, cass_result,
          paging_state_response,
          payload, built, shared_data, result_state,
          shared_result, result_arc, result_handles,
          source, iterators,
          meta_node,
          cursor, returns,
          frame>>

(***************************************************************************)
(* Bounds                                                                  *)
(***************************************************************************)
MaxLen == 3      \* largest number of elements / entries / fields / rows
\* cass_iterator_next calls made on one iterator: enough to walk the longest
\* flattened map (2 * MaxLen positions) and call twice more at its end
MaxCalls == 2 * MaxLen + 2
MaxCols == 3     \* largest number of columns of a generated table
MaxTables == 2   \* largest number of tables of a keyspace
MaxViews == 2    \* largest number of materialized views of a keyspace
MaxBytes == 5    \* longest slice decoded
MaxArity == 2    \* largest arity of a tuple, most fields of a user-defined type
MaxResultCols == 3   \* largest number of columns of a result

(***************************************************************************)
(* Option, slices, handles                                                 *)
(***************************************************************************)
None == <<>>
Some(x) == <<x>>
IsSome(o) == Len(o) = 1
IsNone(o) == Len(o) = 0

\* slice::get / Vec::get with a 0-based index
Get(s, i) == IF i < Len(s) THEN Some(s[i + 1]) ELSE None

Null == <<"null", 0>>

Flags(n) == [1..n -> BOOLEAN]
AllTrue(n) == [i \in 1..n |-> TRUE]

(***************************************************************************)
(* Sources an iterator can be built over.                                  *)
(*                                                                         *)
(* A LegacyCassValue is its declared value type, its decoded content and   *)
(* its item count.  A collection's elements are identified by their index; *)
(* a tuple slot or a UDT field may hold no value (present[i] = FALSE).     *)
(***************************************************************************)
ValueTypes == {"LIST", "SET", "MAP", "TUPLE", "UDT", "INT"}

NullValue(t) == [vtype |-> t, tag |-> "None", n |-> 0, present |-> <<>>, item_count |-> None]
ScalarValue == [vtype |-> "INT", tag |-> "Scalar", n |-> 0, present |-> <<>>, item_count |-> None]
ListValue(n) == [vtype |-> "LIST", tag |-> "List", n |-> n, present |-> AllTrue(n), item_count |-> Some(n)]
SetValue(n) == [vtype |-> "SET", tag |-> "Set", n |-> n, present |-> AllTrue(n), item_count |-> Some(n)]
MapValue(n) == [vtype |-> "MAP", tag |-> "Map", n |-> n, present |-> AllTrue(n), item_count |-> Some(n)]
TupleValue(p) == [vtype |-> "TUPLE", tag |-> "Tuple", n |-> Len(p), present |-> p, item_count |-> Some(Len(p))]
UdtValue(p) == [vtype |-> "UDT", tag |-> "Udt", n |-> Len(p), present |-> p, item_count |-> Some(Len(p))]

SlotFlags == UNION {Flags(n) : n \in 0..MaxLen}

LegacyValues ==
    {NullValue(t) : t \in ValueTypes} \cup {ScalarValue}
    \cup {ListValue(n) : n \in 0..MaxLen}
    \cup {SetValue(n) : n \in 0..MaxLen}
    \cup {MapValue(n) : n \in 0..MaxLen}
    \cup {TupleValue(p) : p \in SlotFlags}
    \cup {UdtValue(p) : p \in SlotFlags}

\* A CassRow: only the number of its columns matters to the row cursor.
Rows == {[columns |-> n] : n \in 0..MaxLen}

\* A CassResult.  rows[k] tells whether row k of the frame decodes.  The first
\* row of a Rows result decodes: from_result_payload returns an error otherwise.
RowFlags == {f \in SlotFlags : Len(f) > 0 => f[1]}
Results ==
    {[kind |-> "NonRows", rows |-> <<>>]}
    \cup {[kind |-> "Rows", rows |-> f] : f \in RowFlags}

\* Schema nodes: the sizes of the maps the schema cursors walk.
SchemaMetas == {[keyspaces |-> n] : n \in 0..MaxLen}
KeyspaceMetas ==
    {[tables |-> a, user_defined_type_data_type |-> b, views |-> c] :
        a \in 0..MaxLen, b \in 0..MaxLen, c \in 0..MaxLen}
TableMetas == {[columns_metadata |-> a, views |-> b] : a \in 0..MaxLen, b \in 0..MaxLen}
ViewMetas == {[columns_metadata |-> a] : a \in 0..MaxLen}

(***************************************************************************)
(* The CassIterator enum.  variant is the enum variant, arm the inner      *)
(* variant of the two-armed cursors and of CassResultIterator.             *)
(*   positional cursors: value (the source), count, position               *)
(*   CassRowsResultIterator: consumed (rows taken from the row source) and *)
(*   current_row                                                           *)
(***************************************************************************)
NoIter ==
    [variant |-> "NoIter", arm |-> "", value |-> Null, count |-> 0,
     position |-> None, consumed |-> 0, current_row |-> None]

Cursor(variant, arm, value, count) ==
    [variant |-> variant, arm |-> arm, value |-> value, count |-> count,
     position |-> None, consumed |-> 0, current_row |-> None]

\* position.map_or(0, |prev_pos| prev_pos + 1)
new_pos(position) == IF IsNone(position) THEN 0 ELSE position[1] + 1

\* TypedRowIterator::next of the driver: the rows of the frame in order, each
\* either decoded or a deserialization error; None once all rows were taken.
TypedRowIterator_next(rows, consumed) ==
    IF consumed >= Len(rows)
    THEN [consumed |-> consumed, item |-> None]
    ELSE [consumed |-> consumed + 1,
          item |-> Some([ok |-> rows[consumed + 1], row |-> consumed + 1])]

\* (mutation) the previously current row is kept when no new row is produced
CassResultIterator_next_KeepsRow(it) ==
    IF it.arm # "Rows"
    THEN [iter |-> it, ret |-> FALSE]
    ELSE LET r == TypedRowIterator_next(it.value.rows, it.consumed)
             new_row == IF IsSome(r.item) /\ r.item[1].ok
                        THEN Some(r.item[1].row) ELSE None
         IN  [iter |-> [it EXCEPT !.consumed = r.consumed,
                                  !.current_row = IF IsSome(new_row) THEN new_row ELSE @],
              ret |-> IsSome(new_row)]

CassResultIterator_next(it) ==
    IF it.arm # "Rows"
    THEN [iter |-> it, ret |-> FALSE]
    ELSE LET r == TypedRowIterator_next(it.value.rows, it.consumed)
             new_row == IF IsSome(r.item) /\ r.item[1].ok
                        THEN Some(r.item[1].row) ELSE None
         IN  [iter |-> [it EXCEPT !.consumed = r.consumed, !.current_row = new_row],
              ret |-> IsSome(new_row)]

CassRowIterator_next(it) ==
    LET p == new_pos(it.position)
    IN  [iter |-> [it EXCEPT !.position = Some(p)], ret |-> p < it.value.columns]

LegacyCassCollectionIterator_next(it) ==
    LET p == new_pos(it.position)
    IN  [iter |-> [it EXCEPT !.position = Some(p)], ret |-> p < it.count]

\* (mutation) the position equal to the count is taken for an element
LegacyCassMapIterator_next_Inclusive(it) ==
    LET p == new_pos(it.position)
    IN  [iter |-> [it EXCEPT !.position = Some(p)], ret |-> p <= it.count]

LegacyCassMapIterator_next(it) ==
    LET p == new_pos(it.position)
    IN  [iter |-> [it EXCEPT !.position = Some(p)], ret |-> p < it.count]

LegacyCassUdtIterator_next(it) ==
    LET p == new_pos(it.position)
    IN  [iter |-> [it EXCEPT !.position = Some(p)], ret |-> p < it.count]

CassSchemaMetaIterator_next(it) ==
    LET p == new_pos(it.position)
    IN  [iter |-> [it EXCEPT !.position = Some(p)], ret |-> p < it.count]

CassKeyspaceMetaIterator_next(it) ==
    LET p == new_pos(it.position)
    IN  [iter |-> [it EXCEPT !.position = Some(p)], ret |-> p < it.count]

CassTableMetaIterator_next(it) ==
    LET p == new_pos(it.position)
    IN  [iter |-> [it EXCEPT !.position = Some(p)], ret |-> p < it.count]

CassViewMetaIterator_next(it) ==
    LET p == new_pos(it.position)
    IN  [iter |-> [it EXCEPT !.position = Some(p)], ret |-> p < it.count]

\* the match of cass_iterator_next
IteratorNext(it) ==
    CASE it.variant = "Result" -> CassResultIterator_next(it)
      [] it.variant = "Row" -> CassRowIterator_next(it)
      [] it.variant \in {"Collection", "Tuple"} -> LegacyCassCollectionIterator_next(it)
      [] it.variant = "Map" -> LegacyCassMapIterator_next(it)
      [] it.variant = "Udt" -> LegacyCassUdtIterator_next(it)
      [] it.variant = "KeyspacesMeta" -> CassSchemaMetaIterator_next(it)
      [] it.variant \in {"TablesMeta", "UserTypes"} -> CassKeyspaceMetaIterator_next(it)
      [] it.variant = "MaterializedViewsMeta" /\ it.arm = "FromKeyspace" ->
            CassKeyspaceMetaIterator_next(it)
      [] it.variant = "MaterializedViewsMeta" /\ it.arm = "FromTable" ->
            CassTableMetaIterator_next(it)
      [] it.variant = "ColumnsMeta" /\ it.arm = "FromTable" -> CassTableMetaIterator_next(it)
      [] it.variant = "ColumnsMeta" /\ it.arm = "FromView" -> CassViewMetaIterator_next(it)

(***************************************************************************)
(* The C API of the iterator.  A pointer argument is an Option: None is    *)
(* the null pointer, Some(x) a valid pointer to x.  Every function returns *)
(*   panic  TRUE when the call panics (unwrap of None, ...)                *)
(*   ret    the value returned                                             *)
(*   iter   the iterator as the call leaves it                             *)
(***************************************************************************)
\* BoxFFI::as_ref / RefFFI::as_ref / ArcFFI::as_ref: None for the null pointer
as_ref(ptr) == ptr

Panicked == [panic |-> TRUE, ret |-> Null, iter |-> NoIter]
Returned(r, it) == [panic |-> FALSE, ret |-> r, iter |-> it]

\* HashMap::iter().nth(n) on a map of the given size: the n-th entry in the
\* map's iteration order, if there is one
iter_nth(size, n) == IF n < size THEN Some(n) ELSE None

cass_iterator_type(iterator) ==
    IF IsNone(as_ref(iterator)) THEN Panicked
    ELSE LET it == iterator[1]
         IN  Returned(
                CASE it.variant = "Result" -> "CASS_ITERATOR_TYPE_RESULT"
                  [] it.variant = "Row" -> "CASS_ITERATOR_TYPE_ROW"
                  [] it.variant = "Collection" -> "CASS_ITERATOR_TYPE_COLLECTION"
                  [] it.variant = "Map" -> "CASS_ITERATOR_TYPE_MAP"
                  [] it.variant = "Tuple" -> "CASS_ITERATOR_TYPE_TUPLE"
                  [] it.variant = "Udt" -> "CASS_ITERATOR_TYPE_USER_TYPE_FIELD"
                  [] it.variant = "KeyspacesMeta" -> "CASS_ITERATOR_TYPE_KEYSPACE_META"
                  [] it.variant = "TablesMeta" -> "CASS_ITERATOR_TYPE_TABLE_META"
                  [] it.variant = "UserTypes" -> "CASS_ITERATOR_TYPE_TYPE_META"
                  [] it.variant = "MaterializedViewsMeta" ->
                        "CASS_ITERATOR_TYPE_MATERIALIZED_VIEW_META"
                  [] it.variant = "ColumnsMeta" -> "CASS_ITERATOR_TYPE_COLUMN_META",
                it)

cass_iterator_next(iterator) ==
    IF IsNone(as_ref(iterator)) THEN Panicked
    ELSE LET result == IteratorNext(iterator[1])
         IN  Returned(result.ret, result.iter)

cass_iterator_get_row(iterator) ==
    IF IsNone(as_ref(iterator)) THEN Panicked
    ELSE LET it == iterator[1]
         IN  IF ~(it.variant = "Result" /\ it.arm = "Rows") THEN Returned(Null, it)
             ELSE IF IsSome(it.current_row)
                  THEN Returned(<<"row", it.current_row[1]>>, it)
                  ELSE Returned(Null, it)

\* (mutation) reading the current column also steps to the next one
cass_iterator_get_column_Advancing(iterator) ==
    IF IsNone(as_ref(iterator)) THEN Panicked
    ELSE LET it == iterator[1]
         IN  IF it.variant = "Row"
             THEN IF IsNone(it.position) THEN Returned(Null, it)
                  ELSE IF it.position[1] < it.value.columns
                       THEN Returned(<<"column", it.position[1]>>,
                                     [it EXCEPT !.position = Some(it.position[1] + 1)])
                       ELSE Returned(Null, it)
             ELSE Returned(Null, it)

cass_iterator_get_column(iterator) ==
    IF IsNone(as_ref(iterator)) THEN Panicked
    ELSE LET it == iterator[1]
         IN  IF it.variant = "Row"
             THEN IF IsNone(it.position) THEN Returned(Null, it)
                  ELSE IF it.position[1] < it.value.columns
                       THEN Returned(<<"column", it.position[1]>>, it)
                       ELSE Returned(Null, it)
             ELSE Returned(Null, it)

cass_iterator_get_value(iterator) ==
    IF IsNone(as_ref(iterator)) THEN Panicked
    ELSE LET it == iterator[1]
         IN  IF it.variant \in {"Collection", "Tuple"}
             THEN IF IsNone(it.position) THEN Returned(Null, it)
                  ELSE LET iter_position == it.position[1]
                           v == it.value
                           value ==
                             CASE v.tag \in {"List", "Set"} ->
                                    IF iter_position < v.n
                                    THEN Some(<<"item", iter_position>>) ELSE None
                               [] v.tag = "Tuple" ->
                                    IF IsSome(Get(v.present, iter_position))
                                       /\ v.present[iter_position + 1]
                                    THEN Some(<<"item", iter_position>>) ELSE None
                               [] v.tag = "Map" ->
                                    LET map_entry_index == iter_position \div 2
                                    IN  IF map_entry_index < v.n
                                        THEN Some(IF iter_position % 2 = 0
                                                  THEN <<"key", map_entry_index>>
                                                  ELSE <<"value", map_entry_index>>)
                                        ELSE None
                               [] OTHER -> None
                       IN  IF IsNone(value) THEN Returned(Null, it)
                           ELSE Returned(value[1], it)
             ELSE Returned(Null, it)

\* (mutation) the variant of the iterator is not checked
cass_iterator_get_map_key_AnyVariant(iterator) ==
    IF IsNone(as_ref(iterator)) THEN Panicked
    ELSE LET it == iterator[1]
         IN  IF it.variant \in {"Map", "Collection"}
             THEN IF IsNone(it.position) THEN Returned(Null, it)
                  ELSE IF it.value.tag \in {"Map", "List"} /\ it.position[1] < it.value.n
                       THEN Returned(<<"key", it.position[1]>>, it)
                       ELSE Returned(Null, it)
             ELSE Returned(Null, it)

cass_iterator_get_map_key(iterator) ==
    IF IsNone(as_ref(iterator)) THEN Panicked
    ELSE LET it == iterator[1]
         IN  IF it.variant = "Map"
             THEN IF IsNone(it.position) THEN Returned(Null, it)
                  ELSE IF it.value.tag = "Map" /\ it.position[1] < it.value.n
                       THEN Returned(<<"key", it.position[1]>>, it)
                       ELSE Returned(Null, it)
             ELSE Returned(Null, it)

cass_iterator_get_map_value(iterator) ==
    IF IsNone(as_ref(iterator)) THEN Panicked
    ELSE LET it == iterator[1]
         IN  IF it.variant = "Map"
             THEN IF IsNone(it.position) THEN Returned(Null, it)
                  ELSE IF it.value.tag = "Map" /\ it.position[1] < it.value.n
                       THEN Returned(<<"value", it.position[1]>>, it)
                       ELSE Returned(Null, it)
             ELSE Returned(Null, it)

\* ret is the error code together with what was written to the name output
\* (None: nothing was written)
BadParams == [err |-> "CASS_ERROR_LIB_BAD_PARAMS", name |-> None]

cass_iterator_get_user_type_field_name(iterator) ==
    IF IsNone(as_ref(iterator)) THEN Panicked
    ELSE LET it == iterator[1]
         IN  IF it.variant = "Udt"
             THEN IF IsNone(it.position) THEN Returned(BadParams, it)
                  ELSE IF it.value.tag # "Udt" THEN Returned(BadParams, it)
                  ELSE IF it.position[1] < it.value.n
                       THEN Returned([err |-> "CASS_OK",
                                      name |-> Some(<<"field_name", it.position[1]>>)], it)
                       ELSE Returned(BadParams, it)
             ELSE Returned(BadParams, it)

cass_iterator_get_user_type_field_value(iterator) ==
    IF IsNone(as_ref(iterator)) THEN Panicked
    ELSE LET it == iterator[1]
         IN  IF it.variant = "Udt"
             THEN IF IsNone(it.position) THEN Returned(Null, it)
                  ELSE IF it.value.tag # "Udt" THEN Returned(Null, it)
                  ELSE IF it.position[1] < it.value.n /\ it.value.present[it.position[1] + 1]
                       THEN Returned(<<"field_value", it.position[1]>>, it)
                       ELSE Returned(Null, it)
             ELSE Returned(Null, it)

cass_iterator_get_keyspace_meta(iterator) ==
    IF IsNone(as_ref(iterator)) THEN Panicked
    ELSE LET it == iterator[1]
         IN  IF it.variant = "KeyspacesMeta"
             THEN IF IsNone(it.position) THEN Returned(Null, it)
                  ELSE LET e == iter_nth(it.value.keyspaces, it.position[1])
                       IN  IF IsSome(e) THEN Returned(<<"keyspace", e[1]>>, it)
                           ELSE Returned(Null, it)
             ELSE Returned(Null, it)

cass_iterator_get_table_meta(iterator) ==
    IF IsNone(as_ref(iterator)) THEN Panicked
    ELSE LET it == iterator[1]
         IN  IF it.variant = "TablesMeta"
             THEN IF IsNone(it.position) THEN Returned(Null, it)
                  ELSE LET e == iter_nth(it.value.tables, it.position[1])
                       IN  IF IsSome(e) THEN Returned(<<"table", e[1]>>, it)
                           ELSE Returned(Null, it)
             ELSE Returned(Null, it)

cass_iterator_get_user_type(iterator) ==
    IF IsNone(as_ref(iterator)) THEN Panicked
    ELSE LET it == iterator[1]
         IN  IF it.variant = "UserTypes"
             THEN IF IsNone(it.position) THEN Returned(Null, it)
                  ELSE LET e == iter_nth(it.value.user_defined_type_data_type, it.position[1])
                       IN  IF IsSome(e) THEN Returned(<<"user_type", e[1]>>, it)
                           ELSE Returned(Null, it)
             ELSE Returned(Null, it)

cass_iterator_get_column_meta(iterator) ==
    IF IsNone(as_ref(iterator)) THEN Panicked
    ELSE LET it == iterator[1]
         IN  IF it.variant = "ColumnsMeta" /\ it.arm \in {"FromTable", "FromView"}
             THEN IF IsNone(it.position) THEN Returned(Null, it)
                  ELSE LET e == iter_nth(it.value.columns_metadata, it.position[1])
                       IN  IF IsSome(e) THEN Returned(<<"column_meta", e[1]>>, it)
                           ELSE Returned(Null, it)
             ELSE Returned(Null, it)

cass_iterator_get_materialized_view_meta(iterator) ==
    IF IsNone(as_ref(iterator)) THEN Panicked
    ELSE LET it == iterator[1]
         IN  IF it.variant = "MaterializedViewsMeta" /\ it.arm \in {"FromKeyspace", "FromTable"}
             THEN IF IsNone(it.position) THEN Returned(Null, it)
                  ELSE LET e == iter_nth(it.value.views, it.position[1])
                       IN  IF IsSome(e) THEN Returned(<<"view", e[1]>>, it)
                           ELSE Returned(Null, it)
             ELSE Returned(Null, it)

(***************************************************************************)
(* Value predicates used by the iterator constructors (query_result.rs).   *)
(* They return [panic, ret].                                               *)
(***************************************************************************)
ValuePanicked == [panic |-> TRUE, ret |-> 0]
ValueReturned(r) == [panic |-> FALSE, ret |-> r]

unwrap_or(o, d) == IF IsSome(o) THEN o[1] ELSE d

cass_value_type(value) ==
    IF IsNone(as_ref(value)) THEN ValuePanicked
    ELSE ValueReturned(value[1].vtype)

cass_value_is_collection(value) ==
    IF IsNone(as_ref(value)) THEN ValuePanicked
    ELSE ValueReturned(value[1].vtype \in {"LIST", "SET", "MAP"})

cass_value_item_count(collection) ==
    IF IsNone(as_ref(collection)) THEN ValuePanicked
    ELSE ValueReturned(unwrap_or(collection[1].item_count, 0))

(***************************************************************************)
(* Iterator constructors.  ret is the handle returned: Null or NewIter.    *)
(***************************************************************************)
NewIter == <<"iterator", 0>>

\* (mutation) the iterator starts after the row the result has cached
cass_iterator_from_result_SkipsFirst(result) ==
    IF IsNone(as_ref(result)) THEN Panicked
    ELSE LET r == result[1]
         IN  IF r.kind = "NonRows"
             THEN Returned(NewIter, Cursor("Result", "NonRows", r, 0))
             ELSE Returned(NewIter, [Cursor("Result", "Rows", r, 0) EXCEPT !.consumed = 1])

cass_iterator_from_result(result) ==
    IF IsNone(as_ref(result)) THEN Panicked
    ELSE LET r == result[1]
         IN  IF r.kind = "NonRows"
             THEN Returned(NewIter, Cursor("Result", "NonRows", r, 0))
             ELSE Returned(NewIter, Cursor("Result", "Rows", r, 0))

cass_iterator_from_row(row) ==
    IF IsNone(as_ref(row)) THEN Panicked
    ELSE Returned(NewIter, Cursor("Row", "", row[1], 0))

\* (mutation) the item count of a map is not doubled
cass_iterator_from_collection_NotDoubled(value) ==
    LET is_collection == cass_value_is_collection(value)
    IN  IF is_collection.panic THEN Panicked
        ELSE IF IsNone(value) \/ ~is_collection.ret THEN Returned(Null, NoIter)
        ELSE LET item_count == cass_value_item_count(value).ret
             IN  Returned(NewIter, Cursor("Collection", "", value[1], item_count))

cass_iterator_from_collection(value) ==
    LET is_collection == cass_value_is_collection(value)
    IN  IF is_collection.panic THEN Panicked
        ELSE IF IsNone(value) \/ ~is_collection.ret THEN Returned(Null, NoIter)
        ELSE LET item_count == cass_value_item_count(value).ret
                 count == IF cass_value_type(value).ret = "MAP"
                          THEN item_count * 2 ELSE item_count
             IN  Returned(NewIter, Cursor("Collection", "", value[1], count))

cass_iterator_from_tuple(value) ==
    IF IsNone(as_ref(value)) THEN Panicked
    ELSE IF value[1].tag = "Tuple"
         THEN Returned(NewIter, Cursor("Tuple", "", value[1], value[1].n))
         ELSE Returned(Null, NoIter)

\* (mutation) the count is that of the flattened map: two per entry
cass_iterator_from_map_Flattened(value) ==
    IF IsNone(as_ref(value)) THEN Panicked
    ELSE IF value[1].tag = "Map"
         THEN Returned(NewIter, Cursor("Map", "", value[1], value[1].n * 2))
         ELSE Returned(Null, NoIter)

cass_iterator_from_map(value) ==
    IF IsNone(as_ref(value)) THEN Panicked
    ELSE IF value[1].tag = "Map"
         THEN Returned(NewIter, Cursor("Map", "", value[1], value[1].n))
         ELSE Returned(Null, NoIter)

cass_iterator_fields_from_user_type(value) ==
    IF IsNone(as_ref(value)) THEN Panicked
    ELSE IF value[1].tag = "Udt"
         THEN Returned(NewIter, Cursor("Udt", "", value[1], value[1].n))
         ELSE Returned(Null, NoIter)

cass_iterator_keyspaces_from_schema_meta(schema_meta) ==
    IF IsNone(as_ref(schema_meta)) THEN Panicked
    ELSE Returned(NewIter,
            Cursor("KeyspacesMeta", "", schema_meta[1], schema_meta[1].keyspaces))

cass_iterator_tables_from_keyspace_meta(keyspace_meta) ==
    IF IsNone(as_ref(keyspace_meta)) THEN Panicked
    ELSE Returned(NewIter,
            Cursor("TablesMeta", "", keyspace_meta[1], keyspace_meta[1].tables))

cass_iterator_materialized_views_from_keyspace_meta(keyspace_meta) ==
    IF IsNone(as_ref(keyspace_meta)) THEN Panicked
    ELSE Returned(NewIter,
            Cursor("MaterializedViewsMeta", "FromKeyspace", keyspace_meta[1],
                   keyspace_meta[1].views))

cass_iterator_user_types_from_keyspace_meta(keyspace_meta) ==
    IF IsNone(as_ref(keyspace_meta)) THEN Panicked
    ELSE Returned(NewIter,
            Cursor("UserTypes", "", keyspace_meta[1],
                   keyspace_meta[1].user_defined_type_data_type))

cass_iterator_columns_from_table_meta(table_meta) ==
    IF IsNone(as_ref(table_meta)) THEN Panicked
    ELSE Returned(NewIter,
            Cursor("ColumnsMeta", "FromTable", table_meta[1], table_meta[1].columns_metadata))

cass_iterator_materialized_views_from_table_meta(table_meta) ==
    IF IsNone(as_ref(table_meta)) THEN Panicked
    ELSE Returned(NewIter,
            Cursor("MaterializedViewsMeta", "FromTable", table_meta[1], table_meta[1].views))

cass_iterator_columns_from_materialized_view_meta(view_meta) ==
    IF IsNone(as_ref(view_meta)) THEN Panicked
    ELSE Returned(NewIter,
            Cursor("ColumnsMeta", "FromView", view_meta[1], view_meta[1].columns_metadata))

(***************************************************************************)
(* Actions of the iterator engine: one per C API function.  A caller holds *)
(* at most one iterator; the pointer it passes is null or that iterator.   *)
(***************************************************************************)
Ptrs(S) == {None} \cup {Some(x) : x \in S}

IterPtrs == IF iter.variant = "NoIter" THEN {None} ELSE {None, Some(iter)}

\* the effect of a call that returned r
Effect(name, r) ==
    /\ op' = name
    /\ IF r.panic
       THEN /\ aborted' = TRUE
            /\ UNCHANGED <<iter, out>>
       ELSE /\ aborted' = FALSE
            /\ iter' = r.iter
            /\ out' = r.ret

Construct(name, r) ==
    /\ ~aborted
    /\ iter.variant = "NoIter"
    /\ Effect(name, r)
    /\ log' = <<>>
    /\ UNCHANGED nonIterVars

Access(name, r) ==
    /\ ~aborted
    /\ Effect(name, r)
    /\ UNCHANGED log
    /\ UNCHANGED nonIterVars

FromResult == \E p \in Ptrs(Results) :
    Construct("cass_iterator_from_result", cass_iterator_from_result(p))
FromRow == \E p \in Ptrs(Rows) :
    Construct("cass_iterator_from_row", cass_iterator_from_row(p))
FromCollection == \E p \in Ptrs(LegacyValues) :
    Construct("cass_iterator_from_collection", cass_iterator_from_collection(p))
FromTuple == \E p \in Ptrs(LegacyValues) :
    Construct("cass_iterator_from_tuple", cass_iterator_from_tuple(p))
FromMap == \E p \in Ptrs(LegacyValues) :
    Construct("cass_iterator_from_map", cass_iterator_from_map(p))
FieldsFromUserType == \E p \in Ptrs(LegacyValues) :
    Construct("cass_iterator_fields_from_user_type", cass_iterator_fields_from_user_type(p))
KeyspacesFromSchemaMeta == \E p \in Ptrs(SchemaMetas) :
    Construct("cass_iterator_keyspaces_from_schema_meta",
              cass_iterator_keyspaces_from_schema_meta(p))
TablesFromKeyspaceMeta == \E p \in Ptrs(KeyspaceMetas) :
    Construct("cass_iterator_tables_from_keyspace_meta",
              cass_iterator_tables_from_keyspace_meta(p))
MaterializedViewsFromKeyspaceMeta == \E p \in Ptrs(KeyspaceMetas) :
    Construct("cass_iterator_materialized_views_from_keyspace_meta",
              cass_iterator_materialized_views_from_keyspace_meta(p))
UserTypesFromKeyspaceMeta == \E p \in Ptrs(KeyspaceMetas) :
    Construct("cass_iterator_user_types_from_keyspace_meta",
              cass_iterator_user_types_from_keyspace_meta(p))
ColumnsFromTableMeta == \E p \in Ptrs(TableMetas) :
    Construct("cass_iterator_columns_from_table_meta",
              cass_iterator_columns_from_table_meta(p))
MaterializedViewsFromTableMeta == \E p \in Ptrs(TableMetas) :
    Construct("cass_iterator_materialized_views_from_table_meta",
              cass_iterator_materialized_views_from_table_meta(p))
ColumnsFromMaterializedViewMeta == \E p \in Ptrs(ViewMetas) :
    Construct("cass_iterator_columns_from_materialized_view_meta",
              cass_iterator_columns_from_materialized_view_meta(p))

IteratorNextCall == \E p \in IterPtrs :
    LET r == cass_iterator_next(p)
    IN  /\ ~aborted
        /\ Len(log) < MaxCalls
        /\ Effect("cass_iterator_next", r)
        /\ log' = IF r.panic THEN log ELSE Append(log, r.ret)
        /\ UNCHANGED nonIterVars

\* BoxFFI::free drops the iterator's box
IteratorFree ==
    /\ ~aborted
    /\ iter.variant # "NoIter"
    /\ iter' = NoIter
    /\ log' = <<>>
    /\ op' = "cass_iterator_free"
    /\ out' = Null
    /\ UNCHANGED aborted
    /\ UNCHANGED nonIterVars

IteratorType == \E p \in IterPtrs : Access("cass_iterator_type", cass_iterator_type(p))
GetRow == \E p \in IterPtrs : Access("cass_iterator_get_row", cass_iterator_get_row(p))
GetColumn == \E p \in IterPtrs : Access("cass_iterator_get_column", cass_iterator_get_column(p))
GetValue == \E p \in IterPtrs : Access("cass_iterator_get_value", cass_iterator_get_value(p))
GetMapKey == \E p \in IterPtrs : Access("cass_iterator_get_map_key", cass_iterator_get_map_key(p))
GetMapValue == \E p \in IterPtrs :
    Access("cass_iterator_get_map_value", cass_iterator_get_map_value(p))
GetUserTypeFieldName == \E p \in IterPtrs :
    Access("cass_iterator_get_user_type_field_name", cass_iterator_get_user_type_field_name(p))
GetUserTypeFieldValue == \E p \in IterPtrs :
    Access("cass_iterator_get_user_type_field_value", cass_iterator_get_user_type_field_value(p))
GetKeyspaceMeta == \E p \in IterPtrs :
    Access("cass_iterator_get_keyspace_meta", cass_iterator_get_keyspace_meta(p))
GetTableMeta == \E p \in IterPtrs :
    Access("cass_iterator_get_table_meta", cass_iterator_get_table_meta(p))
GetUserType == \E p \in IterPtrs :
    Access("cass_iterator_get_user_type", cass_iterator_get_user_type(p))
GetColumnMeta == \E p \in IterPtrs :
    Access("cass_iterator_get_column_meta", cass_iterator_get_column_meta(p))
GetMaterializedViewMeta == \E p \in IterPtrs :
    Access("cass_iterator_get_materialized_view_meta",
           cass_iterator_get_materialized_view_meta(p))

\* the variables of a component that is not driven stay at these values
IdleCall == out = Null /\ op = "init" /\ aborted = FALSE
IdleIter == iter = NoIter /\ log = <<>>
\* no table has been described or built
NoTable == [absent |-> TRUE]

IdleTable == table_metadata = NoTable /\ cass_table_meta = NoTable

\* a keyspace without tables or views
IdleGraph ==
    /\ keyspace = [tables |-> {}, views |-> {}]
    /\ table_arcs = <<>>
    /\ view_arcs = <<>>

\* no value to decode
IdleDecode == column = None /\ raw_value = None

\* no result whose columns are asked for
IdleResult == cass_result = None /\ paging_state_response = None

\* no result under construction
IdleBuild == payload = None /\ built = None /\ shared_data = None /\ result_state = "none"

\* no result is shared between threads
IdleShare == shared_result = None /\ result_arc = None /\ result_handles = <<>>

\* nothing is borrowed
IdleBorrow == source = None /\ iterators = <<>>

\* no metadata node is looked into
IdleLookup == meta_node = None

\* no lazily decoding iterator exists
IdleLazy == cursor = None /\ returns = <<>>

\* no frame was received
IdleFrame == frame = <<>>

Init ==
    /\ IdleCall
    /\ IdleFrame
    /\ IdleLazy
    /\ IdleLookup
    /\ IdleBorrow
    /\ IdleShare
    /\ IdleBuild
    /\ IdleIter
    /\ IdleTable
    /\ IdleGraph
    /\ IdleDecode
    /\ IdleResult

Next ==
    \/ FromResult
    \/ FromRow
    \/ FromCollection
    \/ FromTuple
    \/ FromMap
    \/ FieldsFromUserType
    \/ KeyspacesFromSchemaMeta
    \/ TablesFromKeyspaceMeta
    \/ MaterializedViewsFromKeyspaceMeta
    \/ UserTypesFromKeyspaceMeta
    \/ ColumnsFromTableMeta
    \/ MaterializedViewsFromTableMeta
    \/ ColumnsFromMaterializedViewMeta
    \/ IteratorNextCall
    \/ IteratorFree
    \/ IteratorType
    \/ GetRow
    \/ GetColumn
    \/ GetValue
    \/ GetMapKey
    \/ GetMapValue
    \/ GetUserTypeFieldName
    \/ GetUserTypeFieldValue
    \/ GetKeyspaceMeta
    \/ GetTableMeta
    \/ GetUserType
    \/ GetColumnMeta
    \/ GetMaterializedViewMeta

Spec == Init /\ [][Next]_vars

(***************************************************************************)
(* Properties of the iterator engine                                       *)
(***************************************************************************)
Started == Len(log) > 0
LastAdvance == log[Len(log)]
Successes == Cardinality({i \in 1..Len(log) : log[i]})
Live == iter.variant # "NoIter"

HandleAccessors(it) ==
    << cass_iterator_get_row(Some(it)), cass_iterator_get_column(Some(it)),
       cass_iterator_get_value(Some(it)), cass_iterator_get_map_key(Some(it)),
       cass_iterator_get_map_value(Some(it)),
       cass_iterator_get_user_type_field_value(Some(it)),
       cass_iterator_get_keyspace_meta(Some(it)), cass_iterator_get_table_meta(Some(it)),
       cass_iterator_get_user_type(Some(it)), cass_iterator_get_column_meta(Some(it)),
       cass_iterator_get_materialized_view_meta(Some(it)) >>

AllHandlesNull(it) ==
    \A i \in 1..Len(HandleAccessors(it)) :
        /\ ~HandleAccessors(it)[i].panic
        /\ HandleAccessors(it)[i].ret = Null

\* C1: before the first Advance, and whenever the most recent Advance returned
\* false, every current-element accessor of the iterator returns null, and the
\* UDT field-name accessor returns an error and writes no name.
C1_NoElementUnlessPositioned ==
    (Live /\ (~Started \/ ~LastAdvance)) =>
        /\ AllHandlesNull(iter)
        /\ cass_iterator_get_user_type_field_name(Some(iter)).ret = BadParams

\* an iterator that was positioned on an element, then failed to advance, and
\* whose accessor was then called
C1_Witness ==
    /\ Live /\ ~aborted
    /\ Len(log) >= 2 /\ log[1] /\ ~LastAdvance
    /\ op \in {"cass_iterator_get_row", "cass_iterator_get_column", "cass_iterator_get_value"}
    /\ out = Null

\* C2: once a cass_iterator_next call on an iterator has returned false, every
\* later call on that iterator returns false.
C2_AdvanceMonotonic ==
    \A i \in 1..Len(log) : \A j \in 1..Len(log) : (i < j /\ ~log[i]) => ~log[j]

AccessorOps ==
    {"cass_iterator_type", "cass_iterator_get_row", "cass_iterator_get_column",
     "cass_iterator_get_value", "cass_iterator_get_map_key", "cass_iterator_get_map_value",
     "cass_iterator_get_user_type_field_name", "cass_iterator_get_user_type_field_value",
     "cass_iterator_get_keyspace_meta", "cass_iterator_get_table_meta",
     "cass_iterator_get_user_type", "cass_iterator_get_column_meta",
     "cass_iterator_get_materialized_view_meta"}

\* C3: a current-element accessor (or cass_iterator_type) leaves the iterator
\* and the history of its Advances as they were, and the same accessor called
\* twice in a row returns the same element.
C3_AccessorsNeverAdvance ==
    [][(op' \in AccessorOps /\ ~aborted') =>
          /\ iter' = iter
          /\ log' = log
          /\ (op = op' => out' = out)]_vars

\* the same accessor was called twice in a row on a positioned row iterator
C3_Witness ==
    /\ ~aborted
    /\ op = "cass_iterator_get_column"
    /\ iter.variant = "Row" /\ Started /\ LastAdvance
    /\ out = <<"column", Successes - 1>>

IsFlattenedMap == iter.variant = "Collection" /\ iter.value.tag = "Map"

\* C5: a flattened map iterator over n entries advances successfully exactly
\* 2n times, and after the (p+1)-th successful Advance the current value is the
\* key of entry p/2 for even p and the value of entry p/2 for odd p.
C5_FlattenedMap ==
    IsFlattenedMap =>
        LET n == iter.value.n
            p == Successes - 1
        IN  /\ Successes <= 2 * n
            /\ (Len(log) > Successes => Successes = 2 * n)
            /\ (Started /\ LastAdvance) =>
                  cass_iterator_get_value(Some(iter)).ret =
                      IF p % 2 = 0 THEN <<"key", p \div 2>> ELSE <<"value", p \div 2>>

\* a 3-entry map walked to its end: 6 successful Advances, then a failed one
C5_Witness ==
    /\ IsFlattenedMap /\ iter.value.n = 3
    /\ Len(log) = 7 /\ Successes = 6 /\ ~LastAdvance

\* C6: no call panics, whatever handle (null included) it is given.
C6_NullHandleTolerated == ~aborted

Mismatch(it, variants, r) == (it.variant \notin variants) => r = Returned(Null, it)

WrongVariantNull(it) ==
    /\ Mismatch(it, {"Result"}, cass_iterator_get_row(Some(it)))
    /\ Mismatch(it, {"Row"}, cass_iterator_get_column(Some(it)))
    /\ Mismatch(it, {"Collection", "Tuple"}, cass_iterator_get_value(Some(it)))
    /\ Mismatch(it, {"Map"}, cass_iterator_get_map_key(Some(it)))
    /\ Mismatch(it, {"Map"}, cass_iterator_get_map_value(Some(it)))
    /\ Mismatch(it, {"Udt"}, cass_iterator_get_user_type_field_value(Some(it)))
    /\ Mismatch(it, {"KeyspacesMeta"}, cass_iterator_get_keyspace_meta(Some(it)))
    /\ Mismatch(it, {"TablesMeta"}, cass_iterator_get_table_meta(Some(it)))
    /\ Mismatch(it, {"UserTypes"}, cass_iterator_get_user_type(Some(it)))
    /\ Mismatch(it, {"ColumnsMeta"}, cass_iterator_get_column_meta(Some(it)))
    /\ Mismatch(it, {"MaterializedViewsMeta"}, cass_iterator_get_materialized_view_meta(Some(it)))

\* what a null / false return of the field-name accessor would be: no error
\* reported and no name written
NoName == [err |-> "CASS_OK", name |-> None]

\* C7 as stated: on an iterator of a non-matching variant every current-element
\* accessor, the UDT field-name accessor included, returns null/false (no
\* error) and leaves the iterator unchanged.
C7_WrongVariantNull_Original ==
    Live =>
        /\ WrongVariantNull(iter)
        /\ iter.variant # "Udt" =>
              cass_iterator_get_user_type_field_name(Some(iter)) = Returned(NoName, iter)

\* C7 amended: on an iterator of a non-matching variant every handle-returning
\* accessor returns null and the UDT field-name accessor returns BAD_PARAMS
\* without writing a name; none of them panics or changes the iterator.
C7_WrongVariantNull ==
    Live =>
        /\ WrongVariantNull(iter)
        /\ iter.variant # "Udt" =>
              cass_iterator_get_user_type_field_name(Some(iter)) = Returned(BadParams, iter)

\* a map accessor was called on a positioned list iterator
C7_Witness ==
    /\ ~aborted
    /\ iter.variant = "Collection" /\ iter.value.tag = "List"
    /\ Started /\ LastAdvance
    /\ op = "cass_iterator_get_map_key"
    /\ out = Null

(***************************************************************************)
(* Table metadata (metadata.rs).                                           *)
(*                                                                         *)
(* The driver's Table gives each column a kind and lists the partition-key *)
(* and the clustering-key columns by position.  The HashMap the columns    *)
(* are kept in iterates in an arbitrary order, which `order` records.      *)
(***************************************************************************)
ColumnKinds == {"Regular", "Static", "Clustering", "PartitionKey"}

\* column names the generated tables draw from: "a", "ab", "B", "b", "aa"
NamePool == << <<97>>, <<97, 98>>, <<66>>, <<98>>, <<97, 97>> >>
Names == {NamePool[i] : i \in 1..MaxCols}

\* the sequences that list every element of S once
Perms(S) ==
    {q \in [1..Cardinality(S) -> S] : \A i, j \in 1..Cardinality(S) : q[i] = q[j] => i = j}

ColumnsOfKind(k, kind) == {c \in DOMAIN k : k[c] = kind}

TablesOver(S) ==
    UNION {
        {[columns |-> k, partition_key |-> pk, clustering_key |-> ck] :
            pk \in Perms(ColumnsOfKind(k, "PartitionKey")),
            ck \in Perms(ColumnsOfKind(k, "Clustering"))} :
        k \in {kk \in [S -> ColumnKinds] : ColumnsOfKind(kk, "PartitionKey") # {}}}

\* CREATE TABLE t (i int, f int, g int STATIC, b int, c int STATIC, a int,
\*                 d int, j int, h int, PRIMARY KEY ((d, a, j), h, i))
ExampleTable ==
    [columns |->
        (<<105>> :> "Clustering") @@ (<<102>> :> "Regular") @@ (<<103>> :> "Static")
        @@ (<<98>> :> "Regular") @@ (<<99>> :> "Static") @@ (<<97>> :> "PartitionKey")
        @@ (<<100>> :> "PartitionKey") @@ (<<106>> :> "PartitionKey")
        @@ (<<104>> :> "Clustering"),
     partition_key |-> << <<100>>, <<97>>, <<106>> >>,
     clustering_key |-> << <<104>>, <<105>> >>]

\* two of the orders the example's column map may iterate in
ExampleOrders ==
    { << <<105>>, <<102>>, <<103>>, <<98>>, <<99>>, <<97>>, <<100>>, <<106>>, <<104>> >>,
      << <<104>>, <<106>>, <<103>>, <<100>>, <<97>>, <<102>>, <<99>>, <<98>>, <<105>> >> }

DriverTables == UNION {TablesOver(S) : S \in (SUBSET Names) \ {{}}}

MapOrders(t) == IF t = ExampleTable THEN ExampleOrders ELSE Perms(DOMAIN t.columns)

\* String ordering: bytewise lexicographic
StrLess(a, b) ==
    \E i \in 1..(Len(a) + 1) :
        /\ \A j \in 1..(i - 1) : j <= Len(b) /\ a[j] = b[j]
        /\ IF i <= Len(a) THEN i <= Len(b) /\ a[i] < b[i] ELSE i <= Len(b)

CassColumnType(kind) ==
    CASE kind = "Regular" -> "CASS_COLUMN_TYPE_REGULAR"
      [] kind = "Static" -> "CASS_COLUMN_TYPE_STATIC"
      [] kind = "Clustering" -> "CASS_COLUMN_TYPE_CLUSTERING_KEY"
      [] kind = "PartitionKey" -> "CASS_COLUMN_TYPE_PARTITION_KEY"

\* (mutation) the non-key columns are left in the order the map yields them
create_table_metadata_Unsorted(table, order) ==
    LET columns_metadata ==
            [c \in DOMAIN table.columns |->
                [name |-> c, column_kind |-> CassColumnType(table.columns[c])]]
        IsNonKey(c) ==
            columns_metadata[c].column_kind \notin
                {"CASS_COLUMN_TYPE_PARTITION_KEY", "CASS_COLUMN_TYPE_CLUSTERING_KEY"}
    IN  [columns_metadata |-> columns_metadata,
         order |-> order,
         partition_keys |-> table.partition_key,
         clustering_keys |-> table.clustering_key,
         non_key_sorted_columns |-> SelectSeq(order, IsNonKey),
         views |-> {}]

create_table_metadata(table, order) ==
    LET columns_metadata ==
            [c \in DOMAIN table.columns |->
                [name |-> c, column_kind |-> CassColumnType(table.columns[c])]]
        IsNonKey(c) ==
            columns_metadata[c].column_kind \notin
                {"CASS_COLUMN_TYPE_PARTITION_KEY", "CASS_COLUMN_TYPE_CLUSTERING_KEY"}
        \* the map's entries in iteration order, filtered, then sort_unstable()
        non_key_sorted_columns == SortSeq(SelectSeq(order, IsNonKey), StrLess)
    IN  [columns_metadata |-> columns_metadata,
         order |-> order,
         partition_keys |-> table.partition_key,
         clustering_keys |-> table.clustering_key,
         non_key_sorted_columns |-> non_key_sorted_columns,
         views |-> {}]

MetaPanicked == [panic |-> TRUE, ret |-> None]
MetaReturned(r) == [panic |-> FALSE, ret |-> r]

\* columns_metadata.get(name).unwrap(), returned as a pointer
ColumnPtr(tm, name) ==
    IF name \in DOMAIN tm.columns_metadata
    THEN MetaReturned(Some(tm.columns_metadata[name]))
    ELSE MetaPanicked

cass_table_meta_column_count(tm) == Cardinality(DOMAIN tm.columns_metadata)

cass_table_meta_column(tm, index) ==
    IF IsSome(Get(tm.partition_keys, index))
    THEN ColumnPtr(tm, Get(tm.partition_keys, index)[1])
    ELSE IF index < Len(tm.partition_keys) THEN MetaPanicked     \* usize underflow
    ELSE LET index2 == index - Len(tm.partition_keys)
         IN  IF IsSome(Get(tm.clustering_keys, index2))
             THEN ColumnPtr(tm, Get(tm.clustering_keys, index2)[1])
             ELSE IF index2 < Len(tm.clustering_keys) THEN MetaPanicked   \* usize underflow
             ELSE LET index3 == index2 - Len(tm.clustering_keys)
                  IN  IF IsSome(Get(tm.non_key_sorted_columns, index3))
                      THEN ColumnPtr(tm, Get(tm.non_key_sorted_columns, index3)[1])
                      ELSE MetaReturned(None)

\* columns_metadata.iter().nth(n): the n-th entry of the column map in the
\* order the map iterates in
columns_metadata_iter_nth(tm, n) ==
    IF IsSome(Get(tm.order, n))
    THEN Some(tm.columns_metadata[Get(tm.order, n)[1]])
    ELSE None

\* the view whose own metadata is tm
ViewOf(tm) == [view_metadata |-> tm]

cass_materialized_view_meta_column(view_meta, index) ==
    MetaReturned(columns_metadata_iter_nth(view_meta.view_metadata, index))

\* cass_iterator_columns_from_table_meta on a table with its column map
columns_from_table_meta(tm) ==
    Cursor("ColumnsMeta", "FromTable", tm, cass_table_meta_column_count(tm))

\* cass_iterator_get_column_meta, FromTable arm, on a table with its column map
get_column_meta(it) ==
    IF IsNone(it.position)
    THEN MetaReturned(None)
    ELSE MetaReturned(columns_metadata_iter_nth(it.value, it.position[1]))

(***************************************************************************)
(* SpecTable: a table is drawn, its metadata is built, and the column      *)
(* functions are called on it.                                             *)
(***************************************************************************)
CreateTableMetadata ==
    /\ ~aborted
    /\ cass_table_meta = NoTable
    /\ \E o \in MapOrders(table_metadata) :
          cass_table_meta' = create_table_metadata(table_metadata, o)
    /\ op' = "create_table_metadata"
    /\ out' = Null
    /\ UNCHANGED <<aborted, table_metadata, nonTableVars>>

\* the indexes tried: every column, two past the end, and 555
Indexes(tm) == 0..(cass_table_meta_column_count(tm) + 1) \cup {555}

TableMetaColumn ==
    /\ ~aborted
    /\ cass_table_meta # NoTable
    /\ \E index \in Indexes(cass_table_meta) :
          LET r == cass_table_meta_column(cass_table_meta, index)
          IN  /\ aborted' = r.panic
              /\ out' = [index |-> index, ret |-> r.ret]
    /\ op' = "cass_table_meta_column"
    /\ UNCHANGED <<table_metadata, cass_table_meta, nonTableVars>>

TableMetaColumnCount ==
    /\ ~aborted
    /\ cass_table_meta # NoTable
    /\ out' = [index |-> 0, ret |-> Some(cass_table_meta_column_count(cass_table_meta))]
    /\ op' = "cass_table_meta_column_count"
    /\ UNCHANGED <<aborted, table_metadata, cass_table_meta, nonTableVars>>

MaterializedViewMetaColumn ==
    /\ ~aborted
    /\ cass_table_meta # NoTable
    /\ \E index \in Indexes(cass_table_meta) :
          LET r == cass_materialized_view_meta_column(ViewOf(cass_table_meta), index)
          IN  /\ aborted' = r.panic
              /\ out' = [index |-> index, ret |-> r.ret]
    /\ op' = "cass_materialized_view_meta_column"
    /\ UNCHANGED <<table_metadata, cass_table_meta, nonTableVars>>

TableColumnsIterator ==
    /\ ~aborted
    /\ cass_table_meta # NoTable
    /\ iter = NoIter
    /\ iter' = columns_from_table_meta(cass_table_meta)
    /\ op' = "cass_iterator_columns_from_table_meta"
    /\ out' = Null
    /\ UNCHANGED <<aborted, log, nonIterVars>>

TableColumnsNext ==
    /\ ~aborted
    /\ iter # NoIter
    /\ IsSome(iter.position) => iter.position[1] <= iter.count
    /\ LET r == CassTableMetaIterator_next(iter)
       IN  /\ iter' = r.iter
           /\ out' = [index |-> r.iter.position[1], ret |-> Some(r.ret)]
    /\ op' = "cass_iterator_next"
    /\ UNCHANGED <<aborted, log, nonIterVars>>

TableColumnsGet ==
    /\ ~aborted
    /\ iter # NoIter
    /\ LET r == get_column_meta(iter)
       IN  /\ aborted' = r.panic
           /\ out' = [index |-> new_pos(iter.position) - 1, ret |-> r.ret]
    /\ op' = "cass_iterator_get_column_meta"
    /\ UNCHANGED <<iterVars, nonIterVars>>

InitTable ==
    /\ IdleCall
    /\ IdleFrame
    /\ IdleLazy
    /\ IdleLookup
    /\ IdleBorrow
    /\ IdleShare
    /\ IdleBuild
    /\ IdleIter
    /\ table_metadata \in DriverTables \cup {ExampleTable}
    /\ cass_table_meta = NoTable
    /\ IdleGraph
    /\ IdleDecode
    /\ IdleResult

NextTable ==
    \/ CreateTableMetadata
    \/ TableMetaColumn
    \/ TableMetaColumnCount
    \/ MaterializedViewMetaColumn
    \/ TableColumnsIterator
    \/ TableColumnsNext
    \/ TableColumnsGet

SpecTable == InitTable /\ [][NextTable]_vars

(***************************************************************************)
(* Properties of the table metadata                                        *)
(***************************************************************************)
\* the names of S in increasing order
Ascending(S) ==
    CHOOSE q \in Perms(S) : \A i, j \in 1..Len(q) : i < j => StrLess(q[i], q[j])

\* the fixed column order of a driver table
FixedOrder(t) ==
    t.partition_key \o t.clustering_key
    \o Ascending(ColumnsOfKind(t.columns, "Regular") \cup ColumnsOfKind(t.columns, "Static"))

\* C4: cass_table_meta_column(table, i) is, for i below the column count, the
\* i-th column of: partition keys by position, clustering keys by position,
\* the other columns by name (d,a,j,h,i,b,c,f,g for the example table), each
\* column once; for i at or past the column count it is null; it never panics.
C4_ColumnAtIndex ==
    (op = "cass_table_meta_column") =>
        LET fixed == FixedOrder(table_metadata)
        IN  /\ ~aborted
            /\ Len(fixed) = cass_table_meta_column_count(cass_table_meta)
            /\ {fixed[i] : i \in 1..Len(fixed)} = DOMAIN table_metadata.columns
            /\ IF out.index < cass_table_meta_column_count(cass_table_meta)
               THEN /\ IsSome(out.ret)
                    /\ out.ret[1].name = fixed[out.index + 1]
               ELSE out.ret = None
            /\ table_metadata = ExampleTable =>
                  fixed = << <<100>>, <<97>>, <<106>>, <<104>>, <<105>>,
                             <<98>>, <<99>>, <<102>>, <<103>> >>

\* the example table asked for column 7 (f), and asked past its end
C4_Witness ==
    /\ op = "cass_table_meta_column"
    /\ table_metadata = ExampleTable
    /\ out.index = 7
    /\ out.ret = Some([name |-> <<102>>, column_kind |-> "CASS_COLUMN_TYPE_REGULAR"])

(***************************************************************************)
(* Schema graph (metadata.rs): a keyspace holds its tables and views in    *)
(* Arcs, a table holds the views defined on it in Arcs, and a view refers  *)
(* to its base table through a Weak.  An allocation lives while its strong *)
(* count is positive.                                                      *)
(***************************************************************************)
TableIds == 1..MaxTables
ViewIds == 1..MaxViews

\* Weak<CassTableMeta>: refers to the allocation without owning it
Weak(t) == [to |-> t]

\* CassKeyspaceMeta, its tables and views maps
CassKeyspaceMeta(tables, views) == [tables |-> tables, views |-> views]

\* CassMaterializedViewMeta
CassMaterializedViewMeta(base) == [base_table |-> Weak(base)]

\* the snapshot of a keyspace with tables Ts and views Vs, view v defined on
\* table base[v]: one owner per table (the keyspace), two per view (the
\* keyspace and the base table)
SchemaGraph(Ts, Vs, base) ==
    [keyspace |-> CassKeyspaceMeta(Ts, Vs),
     table_arcs |-> [t \in Ts |-> [strong |-> 1, views |-> {v \in Vs : base[v] = t}]],
     view_arcs |-> [v \in Vs |-> [strong |-> 2, value |-> CassMaterializedViewMeta(base[v])]]]

\* drop of one Arc to each view of S; a view whose count reaches 0 is freed,
\* and the Weak it held goes with it
DropViews(va, S) ==
    [v \in DOMAIN va |-> IF v \in S THEN [va[v] EXCEPT !.strong = @ - 1] ELSE va[v]]

\* Weak::upgrade
upgrade(weak) ==
    IF weak.to \in DOMAIN table_arcs /\ table_arcs[weak.to].strong > 0
    THEN Some(weak.to)
    ELSE None

\* (mutation) the reference is followed without being upgraded
cass_materialized_view_meta_base_table_NoUpgrade(view_meta) ==
    MetaReturned(Some(view_meta.base_table.to))

\* the Arc made by upgrade() is dropped again before the function returns, so
\* the strong count is the same before and after the call
cass_materialized_view_meta_base_table(view_meta) ==
    LET arc == upgrade(view_meta.base_table)
    IN  IF IsSome(arc)
        THEN MetaReturned(Some(arc[1]))
        ELSE MetaReturned(None)      \* tracing::error!, null

\* the strong counts once Weak::upgrade has made its Arc: one more owner of
\* a live allocation, nothing for a dead one
upgrade_counts(arcs, weak) ==
    IF IsSome(upgrade(weak))
    THEN [arcs EXCEPT ![weak.to].strong = @ + 1]
    ELSE arcs

\* (mutation) the upgraded Arc is handed out instead of being dropped
cass_materialized_view_meta_base_table_counts_Leaked(view_meta) ==
    upgrade_counts(table_arcs, view_meta.base_table)

\* the strong counts after the call: `arc` goes out of scope at the end of
\* the match arm, which gives back the owner that upgrade() added
cass_materialized_view_meta_base_table_counts(view_meta) ==
    LET upgraded == upgrade_counts(table_arcs, view_meta.base_table)
    IN  IF IsSome(upgrade(view_meta.base_table))
        THEN [upgraded EXCEPT ![view_meta.base_table.to].strong = @ - 1]
        ELSE upgraded

(***************************************************************************)
(* SpecGraph: a keyspace snapshot from which tables and views are removed  *)
(* while base tables of live views are asked for.                          *)
(***************************************************************************)
LiveViews == {v \in DOMAIN view_arcs : view_arcs[v].strong > 0}

RemoveTable ==
    /\ ~aborted
    /\ \E t \in keyspace.tables :
          LET n == table_arcs[t].strong - 1
          IN  /\ keyspace' = [keyspace EXCEPT !.tables = @ \ {t}]
              /\ table_arcs' = [table_arcs EXCEPT ![t].strong = n]
              /\ view_arcs' = IF n = 0 THEN DropViews(view_arcs, table_arcs[t].views)
                                       ELSE view_arcs
    /\ op' = "remove_table"
    /\ out' = Null
    /\ UNCHANGED <<aborted, nonGraphVars>>

RemoveView ==
    /\ ~aborted
    /\ \E v \in keyspace.views :
          /\ keyspace' = [keyspace EXCEPT !.views = @ \ {v}]
          /\ view_arcs' = DropViews(view_arcs, {v})
    /\ op' = "remove_view"
    /\ out' = Null
    /\ UNCHANGED <<aborted, table_arcs, nonGraphVars>>

MaterializedViewMetaBaseTable ==
    /\ ~aborted
    /\ \E v \in LiveViews :
          LET r == cass_materialized_view_meta_base_table(view_arcs[v].value)
          IN  /\ aborted' = r.panic
              /\ out' = [view |-> v, ret |-> r.ret]
              /\ table_arcs' = cass_materialized_view_meta_base_table_counts(view_arcs[v].value)
    /\ op' = "cass_materialized_view_meta_base_table"
    /\ UNCHANGED <<keyspace, view_arcs, nonGraphVars>>

\* the keyspace is dropped: its tables map, then its views map
SchemaMetaFree ==
    /\ ~aborted
    /\ keyspace.tables \cup keyspace.views # {}
    /\ keyspace' = CassKeyspaceMeta({}, {})
    /\ table_arcs' = [t \in DOMAIN table_arcs |-> [table_arcs[t] EXCEPT !.strong = 0]]
    /\ view_arcs' = [v \in DOMAIN view_arcs |-> [view_arcs[v] EXCEPT !.strong = 0]]
    /\ op' = "cass_schema_meta_free"
    /\ out' = Null
    /\ UNCHANGED <<aborted, nonGraphVars>>

InitGraph ==
    /\ IdleCall
    /\ IdleFrame
    /\ IdleLazy
    /\ IdleLookup
    /\ IdleBorrow
    /\ IdleShare
    /\ IdleBuild
    /\ IdleIter
    /\ IdleTable
    /\ IdleDecode
    /\ IdleResult
    /\ \E Ts \in (SUBSET TableIds) \ {{}} : \E Vs \in SUBSET ViewIds : \E base \in [Vs -> Ts] :
          /\ keyspace = SchemaGraph(Ts, Vs, base).keyspace
          /\ table_arcs = SchemaGraph(Ts, Vs, base).table_arcs
          /\ view_arcs = SchemaGraph(Ts, Vs, base).view_arcs

NextGraph ==
    \/ RemoveTable
    \/ RemoveView
    \/ MaterializedViewMetaBaseTable
    \/ SchemaMetaFree

SpecGraph == InitGraph /\ [][NextGraph]_vars

(***************************************************************************)
(* Properties of the schema graph                                          *)
(***************************************************************************)
\* C8: for every live view, cass_materialized_view_meta_base_table returns the
\* base table, alive, whenever the keyspace still holds that table, and null
\* without panicking whenever the table has no strong owner left; a table
\* the keyspace no longer holds has no owner, whatever views refer to it.
C8_BaseTableResolution ==
    /\ \A t \in DOMAIN table_arcs :
          table_arcs[t].strong = IF t \in keyspace.tables THEN 1 ELSE 0
    /\ \A v \in LiveViews :
          LET r == cass_materialized_view_meta_base_table(view_arcs[v].value)
              t == view_arcs[v].value.base_table.to
          IN  /\ ~r.panic
              /\ t \in keyspace.tables => r.ret = Some(t) /\ table_arcs[t].strong > 0
              /\ table_arcs[t].strong = 0 => r.ret = None
    /\ op = "cass_materialized_view_meta_base_table" =>
          /\ ~aborted
          /\ out.ret = cass_materialized_view_meta_base_table(view_arcs[out.view].value).ret

\* a live view was asked for its base table after the keyspace lost that
\* table, and got null
C8_Witness ==
    /\ op = "cass_materialized_view_meta_base_table"
    /\ out.view \in LiveViews
    /\ view_arcs[out.view].value.base_table.to \notin keyspace.tables
    /\ out.ret = None

(***************************************************************************)
(* Raw value decoder (query_result.rs)                                     *)
(***************************************************************************)
NativeTypes ==
    {"Ascii", "BigInt", "Blob", "Boolean", "Counter", "Decimal", "Duration", "Int", "Text",
     "Time", "Timestamp", "Timeuuid", "Uuid"}

Native(t) == [kind |-> "Native", name |-> t, n |-> 0]
Collection(c) == [kind |-> "Collection", name |-> c, n |-> 0]
Tuple(n) == [kind |-> "Tuple", name |-> "Tuple", n |-> n]
UserDefinedType(n) == [kind |-> "UserDefinedType", name |-> "UserDefinedType", n |-> n]
Vector == [kind |-> "Vector", name |-> "Vector", n |-> 0]

ColumnTypes ==
    {Native(t) : t \in NativeTypes}
    \cup {Collection(c) : c \in {"List", "Set", "Map"}}
    \cup {Tuple(n) : n \in 0..MaxArity}
    \cup {UserDefinedType(n) : n \in 0..MaxArity}
    \cup {Vector}

\* byte values the slices are made of; 255 makes a length negative and is
\* no part of any UTF-8 text
Bytes == {0, 1, 255}

ByteSeqs == UNION {[1..n -> Bytes] : n \in 0..MaxBytes}

\* Option<FrameSlice>
\* n bytes of value b
Fill(n, b) == [i \in 1..n |-> b]

\* slices of the widths the 64-bit and the uuid types have: 0, -1 and a
\* 64-bit value above the nanoseconds of a day; a uuid
LongSlices ==
    {Fill(8, 0), Fill(8, 255), <<0, 0, 255, 0, 0, 0, 0, 0>>, Fill(16, 1)}

FrameSlices == {None} \cup {Some(b) : b \in ByteSeqs \cup LongSlices}

Ok(x) == [ok |-> TRUE, val |-> x]
Err(e) == [ok |-> FALSE, err |-> e]

is_empty(slice) == Len(slice) = 0

\* i32::from_be_bytes
i32_from_be_bytes(b) ==
    (IF b[1] >= 128 THEN b[1] - 256 ELSE b[1]) * 16777216 + b[2] * 65536 + b[3] * 256 + b[4]

\* (mutation) the length read is not tested for its sign
determine_value_item_count_Unchecked(typ, slice) ==
    IF IsNone(slice) THEN Ok(None)
    ELSE CASE typ.kind = "Collection" ->
                IF Len(slice[1]) < 4
                THEN Err([error |-> "TooFewBytes", arg |-> Len(slice[1])])
                ELSE Ok(Some(i32_from_be_bytes(SubSeq(slice[1], 1, 4))))
           [] typ.kind = "Tuple" -> Ok(Some(typ.n))
           [] typ.kind = "UserDefinedType" -> Ok(Some(typ.n))
           [] OTHER -> Ok(None)

determine_value_item_count(typ, slice) ==
    IF IsNone(slice) THEN Ok(None)
    ELSE CASE typ.kind = "Collection" ->
                IF Len(slice[1]) < 4
                THEN Err([error |-> "TooFewBytes", arg |-> Len(slice[1])])
                ELSE LET i32_length == i32_from_be_bytes(SubSeq(slice[1], 1, 4))
                     IN  IF i32_length < 0
                         THEN Err([error |-> "NegativeLength", arg |-> i32_length])
                         ELSE Ok(Some(i32_length))
           [] typ.kind = "Tuple" -> Ok(Some(typ.n))
           [] typ.kind = "UserDefinedType" -> Ok(Some(typ.n))
           [] OTHER -> Ok(None)

\* the first arm of the match in deserialize: types whose slice is passed on
NonEmptiable(typ) ==
    \/ typ.kind = "Collection"
    \/ typ.kind = "UserDefinedType"
    \/ typ.kind = "Native" /\ typ.name \in {"Duration", "Counter", "Ascii", "Text", "Blob"}

\* (mutation) an empty slice becomes null whatever the type
CassRawValue_deserialize_AlwaysNull(typ, v) ==
    LET slice == IF IsSome(v) /\ is_empty(v[1]) THEN None ELSE v
        item_count == determine_value_item_count(typ, slice)
    IN  IF item_count.ok
        THEN Ok([typ |-> typ, slice |-> slice, item_count |-> item_count.val])
        ELSE Err(item_count.err)

CassRawValue_deserialize(typ, v) ==
    LET slice == IF NonEmptiable(typ) THEN v
                 ELSE IF IsSome(v) /\ is_empty(v[1]) THEN None
                 ELSE v
        item_count == determine_value_item_count(typ, slice)
    IN  IF item_count.ok
        THEN Ok([typ |-> typ, slice |-> slice, item_count |-> item_count.val])
        ELSE Err(item_count.err)

\* <&str as DeserializeValue>::deserialize: the bytes must be UTF-8 (of the
\* byte values used, 0 and 1 are, 255 is not)
str_deserialize(bytes) ==
    IF \A i \in 1..Len(bytes) : bytes[i] < 128 THEN Ok(bytes) ELSE Err("Deserialization")

\* CassValue::get_non_null::<&str>, on an Ascii or Text value
get_non_null_str(val) ==
    IF IsNone(val.slice) THEN Err("IsNull") ELSE str_deserialize(val.slice[1])

to_cass_error(e) ==
    CASE e = "IsNull" -> "CASS_ERROR_LIB_NULL_VALUE"
      [] e = "Typecheck" -> "CASS_ERROR_LIB_INVALID_VALUE_TYPE"
      [] e = "Deserialization" -> "CASS_ERROR_LIB_INVALID_DATA"

cass_value_is_null(value) ==
    IF IsNone(as_ref(value)) THEN ValuePanicked
    ELSE ValueReturned(IsNone(value[1].slice))

\* ret is the CassError, output what was written through the out-pointers
cass_value_get_string(value) ==
    IF IsNone(as_ref(value))
    THEN [panic |-> FALSE, ret |-> "CASS_ERROR_LIB_NULL_VALUE", output |-> None]
    ELSE LET val == value[1]
         IN  IF val.typ \in {Native("Ascii"), Native("Text")}
             THEN LET s == get_non_null_str(val)
                  IN  IF s.ok
                      THEN [panic |-> FALSE, ret |-> "CASS_OK", output |-> Some(s.val)]
                      ELSE [panic |-> FALSE, ret |-> to_cass_error(s.err), output |-> None]
             ELSE [panic |-> FALSE, ret |-> "CASS_ERROR_LIB_INVALID_VALUE_TYPE",
                   output |-> None]

\* unsigned big-endian comparison of two byte strings of one length
BytesLeq(a, b) ==
    \/ a = b
    \/ \E i \in 1..Len(a) : a[i] < b[i] /\ \A j \in 1..(i - 1) : a[j] = b[j]

\* 86399999999999, the last nanosecond of a day, as 8 big-endian bytes
MaxTimeBytes == <<0, 0, 78, 148, 145, 78, 255, 255>>

\* DeserializeValue::type_check of the Rust type T
type_check(T, typ) ==
    CASE T = "i64" -> typ = Native("BigInt")
      [] T = "Counter" -> typ = Native("Counter")
      [] T = "CqlTime" -> typ = Native("Time")
      [] T = "CqlTimestamp" -> typ = Native("Timestamp")
      [] T = "Uuid" -> typ = Native("Uuid")
      [] T = "CqlTimeuuid" -> typ = Native("Timeuuid")
      [] T = "CqlDecimalBorrowed" -> typ = Native("Decimal")
      [] T = "str" -> typ \in {Native("Ascii"), Native("Text")}
      [] T = "f32" -> typ = Native("Float")
      [] T = "f64" -> typ = Native("Double")
      [] T = "bool" -> typ = Native("Boolean")
      [] T = "i8" -> typ = Native("TinyInt")
      [] T = "i16" -> typ = Native("SmallInt")
      [] T = "CqlDate" -> typ = Native("Date")
      [] T = "i32" -> typ = Native("Int")
      [] T = "IpAddr" -> typ = Native("Inet")
      [] T = "CqlDuration" -> typ = Native("Duration")

\* the bytes of the vint that starts with byte b: one more for each leading
\* 1 bit
vint_size(b) ==
    CASE b < 128 -> 1 [] b < 192 -> 2 [] b < 224 -> 3 [] b < 240 -> 4 [] b < 248 -> 5
      [] b < 252 -> 6 [] b < 254 -> 7 [] b < 255 -> 8 [] OTHER -> 9

\* a zigzag vint read at the head of the bytes: its value (that of a one-byte
\* vint as a number, a longer one as its bytes) and the bytes after it
vint_decode(bytes) ==
    IF Len(bytes) = 0 \/ Len(bytes) < vint_size(bytes[1]) THEN None
    ELSE Some([value |-> IF vint_size(bytes[1]) > 1 THEN SubSeq(bytes, 1, vint_size(bytes[1]))
                         ELSE IF bytes[1] % 2 = 0 THEN <<bytes[1] \div 2>>
                         ELSE <<0 - ((bytes[1] + 1) \div 2)>>,
               rest |-> SubSeq(bytes, vint_size(bytes[1]) + 1, Len(bytes))])

\* CqlDuration: months, days and nanoseconds, each a vint
duration_deserialize(bytes) ==
    LET months == vint_decode(bytes)
        days == IF IsSome(months) THEN vint_decode(months[1].rest) ELSE None
        nanoseconds == IF IsSome(days) THEN vint_decode(days[1].rest) ELSE None
    IN  IF IsSome(nanoseconds)
        THEN Ok([months |-> months[1].value, days |-> days[1].value,
                 nanoseconds |-> nanoseconds[1].value])
        ELSE Err("Deserialization")

\* DeserializeValue::deserialize of the Rust type T on a present slice.  A
\* 64-bit integer and a uuid are given as their big-endian bytes, a decimal as
\* its scale and the bytes of its unscaled value.
deserialize(T, bytes) ==
    CASE T \in {"i64", "Counter", "CqlTimestamp"} ->
            IF Len(bytes) = 8 THEN Ok(bytes) ELSE Err("Deserialization")
      [] T = "CqlTime" ->
            IF Len(bytes) = 8 /\ bytes[1] < 128 /\ BytesLeq(bytes, MaxTimeBytes)
            THEN Ok(bytes)
            ELSE Err("Deserialization")
      [] T \in {"Uuid", "CqlTimeuuid"} ->
            IF Len(bytes) = 16 THEN Ok(bytes) ELSE Err("Deserialization")
      [] T = "CqlDecimalBorrowed" ->
            IF Len(bytes) >= 4
            THEN Ok([scale |-> i32_from_be_bytes(SubSeq(bytes, 1, 4)),
                     varint |-> SubSeq(bytes, 5, Len(bytes))])
            ELSE Err("Deserialization")
      [] T = "str" -> str_deserialize(bytes)
      [] T \in {"f32", "i32", "CqlDate"} ->
            IF Len(bytes) = 4 THEN Ok(bytes) ELSE Err("Deserialization")
      [] T = "f64" -> IF Len(bytes) = 8 THEN Ok(bytes) ELSE Err("Deserialization")
      [] T \in {"bool", "i8"} -> IF Len(bytes) = 1 THEN Ok(bytes) ELSE Err("Deserialization")
      [] T = "i16" -> IF Len(bytes) = 2 THEN Ok(bytes) ELSE Err("Deserialization")
      [] T = "IpAddr" -> IF Len(bytes) \in {4, 16} THEN Ok(bytes) ELSE Err("Deserialization")
      [] T = "CqlDuration" -> duration_deserialize(bytes)

\* (mutation) the type is checked before the value is tested for null
get_non_null_TypeFirst(T, val) ==
    IF ~type_check(T, val.typ) THEN Err("Typecheck")
    ELSE IF IsNone(val.slice) THEN Err("IsNull")
    ELSE deserialize(T, val.slice[1])

\* CassValue::get_non_null::<T>
get_non_null(T, val) ==
    IF IsNone(val.slice) THEN Err("IsNull")
    ELSE IF ~type_check(T, val.typ) THEN Err("Typecheck")
    ELSE deserialize(T, val.slice[1])

\* what a getter returns: the CassError and what it wrote through its
\* output pointers
GetterReturned(e, output) == [panic |-> FALSE, ret |-> e, output |-> output]
GetterPanicked == [panic |-> TRUE, ret |-> "", output |-> None]

\* a match arm of cass_value_get_int64 / cass_value_get_uuid
GetterArm(T, val) ==
    LET r == get_non_null(T, val)
    IN  IF r.ok THEN GetterReturned("CASS_OK", Some(r.val))
        ELSE IF r.err = "Typecheck" THEN GetterPanicked
        ELSE GetterReturned(to_cass_error(r.err), None)

\* (mutation) the 64-bit getter decodes whatever the column type is
cass_value_get_int64_AnyType(value) ==
    IF IsNone(as_ref(value)) THEN GetterReturned("CASS_ERROR_LIB_NULL_VALUE", None)
    ELSE IF IsSome(value[1].slice) /\ Len(value[1].slice[1]) = 8
         THEN GetterReturned("CASS_OK", value[1].slice)
         ELSE GetterReturned("CASS_ERROR_LIB_INVALID_DATA", None)

cass_value_get_int64(value) ==
    IF IsNone(as_ref(value)) THEN GetterReturned("CASS_ERROR_LIB_NULL_VALUE", None)
    ELSE LET val == value[1]
         IN  CASE val.typ = Native("BigInt") -> GetterArm("i64", val)
               [] val.typ = Native("Counter") -> GetterArm("Counter", val)
               [] val.typ = Native("Time") -> GetterArm("CqlTime", val)
               [] val.typ = Native("Timestamp") -> GetterArm("CqlTimestamp", val)
               [] OTHER -> GetterReturned("CASS_ERROR_LIB_INVALID_VALUE_TYPE", None)

cass_value_get_uuid(value) ==
    IF IsNone(as_ref(value)) THEN GetterReturned("CASS_ERROR_LIB_NULL_VALUE", None)
    ELSE LET val == value[1]
         IN  CASE val.typ = Native("Uuid") -> GetterArm("Uuid", val)
               [] val.typ = Native("Timeuuid") -> GetterArm("CqlTimeuuid", val)
               [] OTHER -> GetterReturned("CASS_ERROR_LIB_INVALID_VALUE_TYPE", None)

cass_value_get_decimal(value) ==
    IF IsNone(as_ref(value)) THEN GetterReturned("CASS_ERROR_LIB_NULL_VALUE", None)
    ELSE LET decimal == get_non_null("CqlDecimalBorrowed", value[1])
         IN  IF decimal.ok THEN GetterReturned("CASS_OK", Some(decimal.val))
             ELSE GetterReturned(to_cass_error(decimal.err), None)

\* the body shared by the getters that call get_non_null without a match
\* on the column type
GetNonNull(T, value) ==
    IF IsNone(as_ref(value)) THEN GetterReturned("CASS_ERROR_LIB_NULL_VALUE", None)
    ELSE LET v == get_non_null(T, value[1])
         IN  IF v.ok THEN GetterReturned("CASS_OK", Some(v.val))
             ELSE GetterReturned(to_cass_error(v.err), None)

cass_value_get_float(value) == GetNonNull("f32", value)
cass_value_get_double(value) == GetNonNull("f64", value)
cass_value_get_bool(value) == GetNonNull("bool", value)
cass_value_get_int8(value) == GetNonNull("i8", value)
cass_value_get_int16(value) == GetNonNull("i16", value)
cass_value_get_uint32(value) == GetNonNull("CqlDate", value)
cass_value_get_int32(value) == GetNonNull("i32", value)
cass_value_get_inet(value) == GetNonNull("IpAddr", value)
cass_value_get_duration(value) == GetNonNull("CqlDuration", value)

\* CassValue::get_bytes_non_null
get_bytes_non_null(val) == IF IsNone(val.slice) THEN Err("IsNull") ELSE Ok(val.slice[1])

cass_value_get_bytes(value) ==
    IF IsNone(as_ref(value)) THEN GetterReturned("CASS_ERROR_LIB_NULL_VALUE", None)
    ELSE LET bytes == get_bytes_non_null(value[1])
         IN  IF bytes.ok THEN GetterReturned("CASS_OK", Some(bytes.val))
             ELSE GetterReturned(to_cass_error(bytes.err), None)

\* the getters by name
ValueGetter(name, value) ==
    CASE name = "cass_value_get_float" -> cass_value_get_float(value)
      [] name = "cass_value_get_double" -> cass_value_get_double(value)
      [] name = "cass_value_get_bool" -> cass_value_get_bool(value)
      [] name = "cass_value_get_int8" -> cass_value_get_int8(value)
      [] name = "cass_value_get_int16" -> cass_value_get_int16(value)
      [] name = "cass_value_get_uint32" -> cass_value_get_uint32(value)
      [] name = "cass_value_get_int32" -> cass_value_get_int32(value)
      [] name = "cass_value_get_inet" -> cass_value_get_inet(value)
      [] name = "cass_value_get_duration" -> cass_value_get_duration(value)
      [] name = "cass_value_get_bytes" -> cass_value_get_bytes(value)
      [] name = "cass_value_get_decimal" -> cass_value_get_decimal(value)
      [] name = "cass_value_get_int64" -> cass_value_get_int64(value)
      [] name = "cass_value_get_uuid" -> cass_value_get_uuid(value)
      [] name = "cass_value_get_string" -> cass_value_get_string(value)

\* the getters that look at the value before they look at its type
NullFirstGetters ==
    {"cass_value_get_float", "cass_value_get_double", "cass_value_get_bool",
     "cass_value_get_int8", "cass_value_get_int16", "cass_value_get_uint32",
     "cass_value_get_int32", "cass_value_get_inet", "cass_value_get_duration",
     "cass_value_get_bytes"}

TypeFirstGetters == {"cass_value_get_int64", "cass_value_get_uuid", "cass_value_get_string"}

(***************************************************************************)
(* SpecDecode: a column type and a slice are drawn, the slice is decoded,  *)
(* and the value functions are called on the value made.                   *)
(***************************************************************************)
Deserialize ==
    /\ ~aborted
    /\ raw_value = None
    /\ raw_value' = Some(CassRawValue_deserialize(column.typ, column.v))
    /\ op' = "deserialize"
    /\ out' = Null
    /\ UNCHANGED <<aborted, column, nonDecodeVars>>

Decoded == ~aborted /\ IsSome(raw_value) /\ raw_value[1].ok

ValueCall(name, r) ==
    /\ op' = name
    /\ aborted' = r.panic
    /\ out' = r
    /\ UNCHANGED <<decodeVars, nonDecodeVars>>

ValueIsNull ==
    /\ Decoded
    /\ ValueCall("cass_value_is_null", cass_value_is_null(Some(raw_value[1].val)))

ValueGetString ==
    /\ Decoded
    /\ ValueCall("cass_value_get_string", cass_value_get_string(Some(raw_value[1].val)))

ValueItemCount ==
    /\ Decoded
    /\ ValueCall("cass_value_item_count", cass_value_item_count(Some(raw_value[1].val)))

ValueGetInt64 ==
    /\ Decoded
    /\ ValueCall("cass_value_get_int64", cass_value_get_int64(Some(raw_value[1].val)))

ValueGetUuid ==
    /\ Decoded
    /\ ValueCall("cass_value_get_uuid", cass_value_get_uuid(Some(raw_value[1].val)))

ValueGetDecimal ==
    /\ Decoded
    /\ ValueCall("cass_value_get_decimal", cass_value_get_decimal(Some(raw_value[1].val)))

\* one of the other getters is called on the value
ValueGet ==
    /\ Decoded
    /\ \E name \in NullFirstGetters :
          ValueCall(name, ValueGetter(name, Some(raw_value[1].val)))

\* a getter is called with the null handle, which takes no value: the calls
\* are made before the slice is decoded
ValueGetOfNull ==
    /\ ~aborted
    /\ raw_value = None
    /\ \E name \in NullFirstGetters \cup TypeFirstGetters \cup {"cass_value_get_decimal"} :
          LET r == ValueGetter(name, None)
          IN  /\ aborted' = r.panic
              /\ out' = [getter |-> name, ret |-> r.ret, output |-> r.output]
    /\ op' = "getter of the null handle"
    /\ UNCHANGED <<decodeVars, nonDecodeVars>>

InitDecode ==
    /\ IdleCall
    /\ IdleFrame
    /\ IdleLazy
    /\ IdleLookup
    /\ IdleBorrow
    /\ IdleShare
    /\ IdleBuild
    /\ IdleIter
    /\ IdleTable
    /\ IdleGraph
    /\ column \in [typ : ColumnTypes, v : FrameSlices]
    /\ raw_value = None
    /\ IdleResult

NextDecode ==
    \/ Deserialize
    \/ ValueIsNull
    \/ ValueGetString
    \/ ValueItemCount
    \/ ValueGetInt64
    \/ ValueGetUuid
    \/ ValueGetDecimal
    \/ ValueGet
    \/ ValueGetOfNull

SpecDecode == InitDecode /\ [][NextDecode]_vars

(***************************************************************************)
(* Properties of the raw value decoder                                     *)
(***************************************************************************)
EmptyPresent == column.v = Some(<<>>)

\* the decoder produced a value and its slice is s
DecodedAs(s) == raw_value[1].ok /\ raw_value[1].val.slice = s

\* what holds of every type and of the types that are no collections
C9_Common ==
    /\ column.v = None => DecodedAs(None)
    /\ (IsSome(column.v) /\ ~EmptyPresent /\ raw_value[1].ok) => DecodedAs(column.v)
    /\ (EmptyPresent /\ column.typ.kind \in {"Native", "Tuple", "Vector"}
            /\ column.typ.name \notin {"Duration", "Counter", "Ascii", "Text", "Blob"})
         => DecodedAs(None)
    /\ (EmptyPresent /\ (\/ column.typ.kind = "UserDefinedType"
                         \/ column.typ.name \in {"Duration", "Counter", "Ascii", "Text", "Blob"}))
         => DecodedAs(Some(<<>>))
    /\ (EmptyPresent /\ column.typ = Native("Int") /\ op = "cass_value_is_null")
         => out.ret = TRUE
    /\ (EmptyPresent /\ column.typ = Native("Text"))
         => /\ op = "cass_value_is_null" => out.ret = FALSE
            /\ op = "cass_value_get_string" => out.ret = "CASS_OK" /\ out.output = Some(<<>>)

\* C9 as stated: an empty present slice of a collection column is retained as
\* a present value, like that of a user-defined type, duration, counter,
\* ascii, text or blob column; every other type's becomes null; an absent
\* slice is null and a non-empty one never is.
C9_EmptyIsNull_Original ==
    IsSome(raw_value) =>
        /\ C9_Common
        /\ (EmptyPresent /\ column.typ.kind = "Collection") => DecodedAs(Some(<<>>))

\* C9: an empty present slice becomes null for every type except collections,
\* user-defined types, duration, counter, ascii, text and blob; for the last
\* six it stays a present empty value, and for a collection decoding fails
\* (fewer than 4 bytes); an absent slice is null for every type and a
\* non-empty slice is never turned into null.  An empty Int value is null,
\* an empty Text value is the non-null empty string.
C9_EmptyIsNull ==
    IsSome(raw_value) =>
        /\ C9_Common
        /\ (EmptyPresent /\ column.typ.kind = "Collection") =>
              /\ ~raw_value[1].ok
              /\ raw_value[1].err = [error |-> "TooFewBytes", arg |-> 0]

\* an empty present Int value was decoded and found null
C9_Witness ==
    /\ EmptyPresent
    /\ column.typ = Native("Int")
    /\ op = "cass_value_is_null"
    /\ out.ret = TRUE

\* the value the getters were called on
TheValue == raw_value[1].val

\* the column types a getter accepts
Accepted(getter) ==
    CASE getter = "cass_value_get_decimal" -> {Native("Decimal")}
      [] getter = "cass_value_get_int64" ->
            {Native("BigInt"), Native("Counter"), Native("Time"), Native("Timestamp")}
      [] getter = "cass_value_get_uuid" -> {Native("Uuid"), Native("Timeuuid")}
      [] getter = "cass_value_get_string" -> {Native("Ascii"), Native("Text")}

\* bytes every reader of the type takes: 8 bytes (a time of day for Time),
\* 16 bytes for the uuids, a scale for a decimal, 7-bit characters for text
WellFormed(typ, bytes) ==
    CASE typ.name \in {"BigInt", "Counter", "Timestamp"} -> Len(bytes) = 8
      [] typ.name = "Time" -> bytes = Fill(8, 0)
      [] typ.name \in {"Uuid", "Timeuuid"} -> Len(bytes) = 16
      [] typ.name = "Decimal" -> Len(bytes) >= 4
      [] typ.name \in {"Ascii", "Text"} -> \A i \in 1..Len(bytes) : bytes[i] \in {0, 1}

Getters ==
    {"cass_value_get_decimal", "cass_value_get_int64", "cass_value_get_uuid",
     "cass_value_get_string"}

\* C11: a typed getter (decimal, 64-bit integer, uuid, string) called on a
\* non-null value whose column type it does not accept returns
\* INVALID_VALUE_TYPE, does not panic and writes nothing; on a column of an
\* accepted type with well-formed bytes it returns OK.
C11_GetterTypeCheck ==
    op \in Getters =>
        /\ ~aborted
        /\ (IsSome(TheValue.slice) /\ TheValue.typ \notin Accepted(op)) =>
              out.ret = "CASS_ERROR_LIB_INVALID_VALUE_TYPE" /\ out.output = None
        /\ (IsSome(TheValue.slice) /\ TheValue.typ \in Accepted(op)
                /\ WellFormed(TheValue.typ, TheValue.slice[1])) =>
              out.ret = "CASS_OK" /\ IsSome(out.output)

\* the decimal getter was called on a non-null Boolean value
C11_Witness ==
    /\ op = "cass_value_get_decimal"
    /\ TheValue.typ = Native("Boolean")
    /\ IsSome(TheValue.slice)
    /\ out.ret = "CASS_ERROR_LIB_INVALID_VALUE_TYPE"

(***************************************************************************)
(* Column metadata of a result (query_result.rs)                           *)
(***************************************************************************)
\* CassDataType, by its value type
CassDataType(value_type) == [value_type |-> value_type]

\* the column specs of create_cass_rows_result
TestColSpecs ==
    << [name |-> "bigint_col", data_type |-> CassDataType("CASS_VALUE_TYPE_BIGINT")],
       [name |-> "varint_col", data_type |-> CassDataType("CASS_VALUE_TYPE_VARINT")],
       [name |-> "list_double_col", data_type |-> CassDataType("CASS_VALUE_TYPE_LIST")] >>

ColSpecs == {TestColSpecs[i] : i \in 1..3}

RowsResult(col_specs) == [kind |-> "Rows", col_specs |-> col_specs]
NonRowsResult == [kind |-> "NonRows", col_specs |-> <<>>]

CassResults ==
    {NonRowsResult}
    \cup {RowsResult(cs) : cs \in UNION {[1..n -> ColSpecs] : n \in 0..MaxResultCols}}

cass_data_type_type(data_type) == data_type.value_type

ResultPanicked == [panic |-> TRUE, ret |-> None, name |-> None]

\* (mutation) the column count is read without looking at the kind of result
cass_result_column_count_RowsOnly(result_raw) ==
    IF IsNone(as_ref(result_raw)) \/ result_raw[1].kind # "Rows" THEN ResultPanicked
    ELSE [panic |-> FALSE, ret |-> Len(result_raw[1].col_specs), name |-> None]

cass_result_column_count(result_raw) ==
    IF IsNone(as_ref(result_raw)) THEN ResultPanicked
    ELSE [panic |-> FALSE,
          ret |-> IF result_raw[1].kind = "Rows" THEN Len(result_raw[1].col_specs) ELSE 0,
          name |-> None]

\* (mutation) the bound check lets the index equal to the column count through
cass_result_column_name_OffByOne(result, index) ==
    IF IsNone(as_ref(result)) THEN ResultPanicked
    ELSE IF result[1].kind # "Rows"
    THEN [panic |-> FALSE, ret |-> "CASS_ERROR_LIB_INDEX_OUT_OF_BOUNDS", name |-> None]
    ELSE IF index > Len(result[1].col_specs)
    THEN [panic |-> FALSE, ret |-> "CASS_ERROR_LIB_INDEX_OUT_OF_BOUNDS", name |-> None]
    ELSE IF IsNone(Get(result[1].col_specs, index)) THEN ResultPanicked
    ELSE [panic |-> FALSE, ret |-> "CASS_OK",
          name |-> Some(Get(result[1].col_specs, index)[1].name)]

\* name is what is written through the name / name_length pointers
cass_result_column_name(result, index) ==
    IF IsNone(as_ref(result)) THEN ResultPanicked
    ELSE IF result[1].kind # "Rows"
    THEN [panic |-> FALSE, ret |-> "CASS_ERROR_LIB_INDEX_OUT_OF_BOUNDS", name |-> None]
    ELSE IF index >= Len(result[1].col_specs)
    THEN [panic |-> FALSE, ret |-> "CASS_ERROR_LIB_INDEX_OUT_OF_BOUNDS", name |-> None]
    ELSE IF IsNone(Get(result[1].col_specs, index)) THEN ResultPanicked    \* get().unwrap()
    ELSE [panic |-> FALSE, ret |-> "CASS_OK",
          name |-> Some(Get(result[1].col_specs, index)[1].name)]

\* ret is the handle returned, None for the null handle
cass_result_column_data_type(result, index) ==
    IF IsNone(as_ref(result)) THEN ResultPanicked
    ELSE IF result[1].kind # "Rows"
    THEN [panic |-> FALSE, ret |-> None, name |-> None]
    ELSE LET col_spec == Get(result[1].col_specs, index)
         IN  [panic |-> FALSE,
              ret |-> IF IsSome(col_spec) THEN Some(col_spec[1].data_type) ELSE None,
              name |-> None]

cass_result_column_type(result, index) ==
    LET data_type_ptr == cass_result_column_data_type(result, index)
    IN  IF data_type_ptr.panic THEN ResultPanicked
        ELSE IF IsNone(data_type_ptr.ret)
        THEN [panic |-> FALSE, ret |-> "CASS_VALUE_TYPE_UNKNOWN", name |-> None]
        ELSE [panic |-> FALSE, ret |-> cass_data_type_type(data_type_ptr.ret[1]),
              name |-> None]

\* PagingStateResponse; state is the PagingState's optional bytes
NoMorePages == [kind |-> "NoMorePages", state |-> None]
HasMorePages(state) == [kind |-> "HasMorePages", state |-> state]

PagingStateResponses ==
    {NoMorePages} \cup {HasMorePages(st) : st \in {None, Some(<<>>), Some(<<1>>), Some(<<1, 255>>)}}

\* PagingStateResponse::finished
finished(response) == response.kind = "NoMorePages"

\* the function is given the result's paging_state_response
result_has_more_pages(result) ==
    IF IsNone(as_ref(result)) THEN ValuePanicked
    ELSE ValueReturned(~finished(result[1]))

cass_result_has_more_pages(result) == result_has_more_pages(result)

\* what is written through paging_state and paging_state_size
Written(ptr, size) == Some([paging_state |-> ptr, paging_state_size |-> size])

\* (mutation) the token is written without asking whether more pages exist
cass_result_paging_state_token_NoGuard(result) ==
    IF IsNone(as_ref(result)) THEN GetterPanicked
    ELSE IF result[1].kind = "HasMorePages" /\ IsSome(result[1].state)
    THEN GetterReturned("CASS_OK", Written(result[1].state, Len(result[1].state[1])))
    ELSE GetterReturned("CASS_OK", Written(None, 0))

\* the function is given the result's paging_state_response
cass_result_paging_state_token(result) ==
    LET more == result_has_more_pages(result)
    IN  IF more.panic THEN GetterPanicked
        ELSE IF more.ret = FALSE
        THEN GetterReturned("CASS_ERROR_LIB_NO_PAGING_STATE", None)
        ELSE IF result[1].kind = "HasMorePages" /\ IsSome(result[1].state)
        THEN GetterReturned("CASS_OK", Written(result[1].state, Len(result[1].state[1])))
        ELSE GetterReturned("CASS_OK", Written(None, 0))

(***************************************************************************)
(* SpecResult: a result is drawn and its column functions are called.      *)
(***************************************************************************)
\* the indexes tried: every column, two past the end, and 555
ResultIndexes == 0..(MaxResultCols + 1) \cup {555}

ResultCall(fname, index, r) ==
    /\ ~aborted
    /\ op' = fname
    /\ aborted' = r.panic
    /\ out' = [index |-> index, ret |-> r.ret, name |-> r.name]
    /\ UNCHANGED <<resultVars, nonResultVars>>

ResultColumnCount ==
    ResultCall("cass_result_column_count", 0, cass_result_column_count(Some(cass_result)))

ResultColumnName ==
    \E index \in ResultIndexes :
        ResultCall("cass_result_column_name", index,
                   cass_result_column_name(Some(cass_result), index))

ResultColumnDataType ==
    \E index \in ResultIndexes :
        ResultCall("cass_result_column_data_type", index,
                   cass_result_column_data_type(Some(cass_result), index))

ResultColumnType ==
    \E index \in ResultIndexes :
        ResultCall("cass_result_column_type", index,
                   cass_result_column_type(Some(cass_result), index))

PagingCall(fname, r) ==
    /\ ~aborted
    /\ op' = fname
    /\ aborted' = r.panic
    /\ out' = r
    /\ UNCHANGED <<resultVars, nonResultVars>>

ResultHasMorePages ==
    PagingCall("cass_result_has_more_pages",
               cass_result_has_more_pages(Some(paging_state_response)))

ResultPagingStateToken ==
    PagingCall("cass_result_paging_state_token",
               cass_result_paging_state_token(Some(paging_state_response)))

InitResult ==
    /\ IdleCall
    /\ IdleFrame
    /\ IdleLazy
    /\ IdleLookup
    /\ IdleBorrow
    /\ IdleShare
    /\ IdleBuild
    /\ IdleIter
    /\ IdleTable
    /\ IdleGraph
    /\ IdleDecode
    /\ cass_result \in CassResults
    /\ paging_state_response \in PagingStateResponses

NextResult ==
    \/ ResultColumnCount
    \/ ResultColumnName
    \/ ResultColumnDataType
    \/ ResultColumnType
    \/ ResultHasMorePages
    \/ ResultPagingStateToken

SpecResult == InitResult /\ [][NextResult]_vars

(***************************************************************************)
(* Properties of the result's column metadata                              *)
(***************************************************************************)
\* C10: on a Rows result with c columns, for every index i:
\* cass_result_column_name returns OK and the name of column i when i < c and
\* INDEX_OUT_OF_BOUNDS otherwise; cass_result_column_data_type returns the
\* data type of column i when i < c and the null handle otherwise;
\* cass_result_column_type returns the value type of column i when i < c and
\* UNKNOWN otherwise; none of them panics.
C10_ColumnAtIndex ==
    cass_result.kind = "Rows" =>
        LET c == Len(cass_result.col_specs)
            i == out.index
        IN  /\ ~aborted
            /\ op = "cass_result_column_name" =>
                  IF i < c
                  THEN out.ret = "CASS_OK" /\ out.name = Some(cass_result.col_specs[i + 1].name)
                  ELSE out.ret = "CASS_ERROR_LIB_INDEX_OUT_OF_BOUNDS" /\ out.name = None
            /\ op = "cass_result_column_data_type" =>
                  IF i < c
                  THEN out.ret = Some(cass_result.col_specs[i + 1].data_type)
                  ELSE out.ret = None
            /\ op = "cass_result_column_type" =>
                  IF i < c
                  THEN out.ret = cass_result.col_specs[i + 1].data_type.value_type
                  ELSE out.ret = "CASS_VALUE_TYPE_UNKNOWN"

\* the three-column result of the test was asked for the type of column 555
C10_Witness ==
    /\ cass_result = RowsResult(TestColSpecs)
    /\ op = "cass_result_column_type"
    /\ out.index = 555
    /\ out.ret = "CASS_VALUE_TYPE_UNKNOWN"

\* C12: cass_result_paging_state_token returns NO_PAGING_STATE and writes
\* nothing exactly when the result has no more pages
\* (cass_result_has_more_pages is false); when more pages exist it returns OK
\* and writes the pointer and the length of the paging-state bytes.
C12_PagingStateToken ==
    LET more == paging_state_response.kind = "HasMorePages"
    IN  /\ op = "cass_result_has_more_pages" => ~aborted /\ out.ret = more
        /\ op = "cass_result_paging_state_token" =>
              /\ ~aborted
              /\ (out.ret = "CASS_ERROR_LIB_NO_PAGING_STATE") <=> ~more
              /\ ~more => out.output = None
              /\ more =>
                    /\ out.ret = "CASS_OK"
                    /\ IsSome(out.output)
                    /\ IsSome(paging_state_response.state) =>
                          /\ out.output[1].paging_state = paging_state_response.state
                          /\ out.output[1].paging_state_size =
                                Len(paging_state_response.state[1])

\* the token was asked of a result without more pages
C12_Witness ==
    /\ op = "cass_result_paging_state_token"
    /\ paging_state_response = NoMorePages
    /\ out.ret = "CASS_ERROR_LIB_NO_PAGING_STATE"

(***************************************************************************)
(* Construction of a result (query_result.rs).  The buffer and the         *)
(* metadata of a rows result live in one Arc allocation, which the result  *)
(* holds and which the first row, when there is one, holds as the cart of  *)
(* its Yoke.                                                               *)
(***************************************************************************)
\* the driver's QueryResult: a rows response (rows[k] tells whether row k
\* decodes), a response without rows, or one whose metadata does not decode;
\* and the cached metadata a prepared statement comes with.  The columns of a
\* rows response are those of create_cass_rows_result.
QueryResults ==
    {[kind |-> k, rows |-> <<>>, maybe_result_metadata |-> m] :
        k \in {"NonRows", "MetadataError"}, m \in {None, Some("cached")}}
    \cup {[kind |-> "Rows", rows |-> f, maybe_result_metadata |-> m] :
            f \in SlotFlags, m \in {None, Some("cached")}}

\* an Arc allocation: its strong count and how often it was deallocated
NoArc == [strong |-> 0, released |-> 0]
ArcNew == [strong |-> 1, released |-> 0]
ArcClone(a) == [a EXCEPT !.strong = @ + 1]
ArcDrop(a) ==
    IF a.strong = 1
    THEN [strong |-> 0, released |-> a.released + 1]
    ELSE [a EXCEPT !.strong = @ - 1]

\* (mutation) the cart is kept when the attach fails
first_from_raw_rows_and_metadata_Leaky(rows, cart) ==
    LET next == TypedRowIterator_next(rows, 0).item
    IN  IF IsNone(next) THEN [ret |-> Ok(None), arc |-> cart]
        ELSE IF next[1].ok THEN [ret |-> Ok(Some([row |-> next[1].row])), arc |-> cart]
        ELSE [ret |-> Err("DeserializationError"), arc |-> cart]

\* cart is the Arc passed in; arc is the allocation afterwards.
\* Yoke::try_attach_to_cart keeps the cart in the Yoke when the closure
\* succeeds and drops it when the closure fails.
first_from_raw_rows_and_metadata(rows, cart) ==
    LET next == TypedRowIterator_next(rows, 0).item
    IN  IF IsNone(next) THEN [ret |-> Ok(None), arc |-> ArcDrop(cart)]        \* NoRows
        ELSE IF next[1].ok THEN [ret |-> Ok(Some([row |-> next[1].row])), arc |-> cart]
        ELSE [ret |-> Err("DeserializationError"), arc |-> ArcDrop(cart)]

\* (mutation) a first row that fails to decode leaves a result without first row
from_result_payload_Swallowing(result) ==
    CASE result.kind = "Rows" ->
            LET first_row == first_from_raw_rows_and_metadata(result.rows, ArcClone(ArcNew))
            IN  [ret |-> Ok([kind |-> "Rows", rows |-> result.rows, col_specs |-> TestColSpecs,
                             metadata |-> unwrap_or(result.maybe_result_metadata, "fresh"),
                             first_row |-> IF first_row.ret.ok THEN first_row.ret.val
                                           ELSE None]),
                 arc |-> first_row.arc]
      [] result.kind = "NonRows" ->
            [ret |-> Ok([kind |-> "NonRows", rows |-> <<>>, col_specs |-> <<>>,
                         metadata |-> "none", first_row |-> None]),
             arc |-> NoArc]
      [] OTHER -> [ret |-> Err("ResultMetadataLazyDeserializationError"), arc |-> NoArc]

\* ret is the Result returned, arc the shared allocation afterwards
from_result_payload(result) ==
    CASE result.kind = "Rows" ->
            LET shared == ArcNew
                first_row == first_from_raw_rows_and_metadata(result.rows, ArcClone(shared))
            IN  IF first_row.ret.ok
                THEN [ret |-> Ok([kind |-> "Rows", rows |-> result.rows,
                                  col_specs |-> TestColSpecs,
                                  metadata |-> unwrap_or(result.maybe_result_metadata, "fresh"),
                                  first_row |-> first_row.ret.val]),
                      arc |-> first_row.arc]
                \* the ? operator: the local shared_data is dropped on the way out
                ELSE [ret |-> Err(first_row.ret.err), arc |-> ArcDrop(first_row.arc)]
      [] result.kind = "NonRows" ->
            [ret |-> Ok([kind |-> "NonRows", rows |-> <<>>, col_specs |-> <<>>,
                         metadata |-> "none", first_row |-> None]),
             arc |-> NoArc]
      [] OTHER -> [ret |-> Err("ResultMetadataLazyDeserializationError"), arc |-> NoArc]

cass_result_first_row(result_raw) ==
    IF IsNone(as_ref(result_raw)) THEN ValuePanicked
    ELSE IF result_raw[1].kind # "Rows" THEN ValueReturned(None)
    ELSE ValueReturned(result_raw[1].first_row)

cass_result_row_count(result_raw) ==
    IF IsNone(as_ref(result_raw)) THEN ValuePanicked
    ELSE IF result_raw[1].kind # "Rows" THEN ValueReturned(0)
    ELSE ValueReturned(Len(result_raw[1].rows))

(***************************************************************************)
(* SpecBuild: a response is drawn, a result is built from it, asked for    *)
(* its first row, and dropped field by field.                              *)
(***************************************************************************)
FromResultPayload ==
    /\ ~aborted
    /\ built = None
    /\ LET r == from_result_payload(payload)
       IN  /\ built' = Some(r.ret)
           /\ shared_data' = r.arc
           /\ result_state' = IF r.ret.ok THEN "live" ELSE "none"
    /\ op' = "from_result_payload"
    /\ out' = Null
    /\ UNCHANGED <<aborted, payload, nonBuildVars>>

Built == ~aborted /\ result_state = "live"

BuiltCall(fname, r) ==
    /\ op' = fname
    /\ aborted' = r.panic
    /\ out' = r
    /\ UNCHANGED <<buildVars, nonBuildVars>>

BuiltFirstRow ==
    /\ Built
    /\ BuiltCall("cass_result_first_row", cass_result_first_row(Some(built[1].val)))

BuiltRowCount ==
    /\ Built
    /\ BuiltCall("cass_result_row_count", cass_result_row_count(Some(built[1].val)))

BuiltIndexCall(fname, index, r) ==
    /\ op' = fname
    /\ aborted' = r.panic
    /\ out' = [index |-> index, ret |-> r.ret, name |-> r.name]
    /\ UNCHANGED <<buildVars, nonBuildVars>>

BuiltColumnCount ==
    /\ Built
    /\ BuiltIndexCall("cass_result_column_count", 0,
                      cass_result_column_count(Some(built[1].val)))

BuiltColumnName ==
    /\ Built
    /\ \E index \in ResultIndexes :
          BuiltIndexCall("cass_result_column_name", index,
                         cass_result_column_name(Some(built[1].val), index))

BuiltColumnDataType ==
    /\ Built
    /\ \E index \in ResultIndexes :
          BuiltIndexCall("cass_result_column_data_type", index,
                         cass_result_column_data_type(Some(built[1].val), index))

BuiltColumnType ==
    /\ Built
    /\ \E index \in ResultIndexes :
          BuiltIndexCall("cass_result_column_type", index,
                         cass_result_column_type(Some(built[1].val), index))

\* an iterator over the built result, advanced and read through its handle
BuiltIteratorFromResult ==
    /\ Built
    /\ Construct("cass_iterator_from_result", cass_iterator_from_result(Some(built[1].val)))

BuiltIteratorNext ==
    /\ iter.variant # "NoIter"
    /\ LET r == cass_iterator_next(Some(iter))
       IN  /\ ~aborted
           /\ Len(log) < MaxCalls
           /\ Effect("cass_iterator_next", r)
           /\ log' = IF r.panic THEN log ELSE Append(log, r.ret)
           /\ UNCHANGED nonIterVars

BuiltIteratorGetRow ==
    /\ iter.variant # "NoIter"
    /\ Access("cass_iterator_get_row", cass_iterator_get_row(Some(iter)))

\* the last handle is freed and the CassResult dropped, once no iterator
\* borrows it: first its shared_data field
DropSharedData ==
    /\ Built
    /\ iter.variant = "NoIter"
    /\ result_state' = IF built[1].val.kind = "Rows" THEN "shared_data dropped" ELSE "dropped"
    /\ shared_data' = IF built[1].val.kind = "Rows" THEN ArcDrop(shared_data) ELSE shared_data
    /\ op' = "cass_result_free"
    /\ out' = Null
    /\ UNCHANGED <<aborted, payload, built, nonBuildVars>>

\* then its first_row field, and with it the cart of the Yoke
DropFirstRow ==
    /\ ~aborted
    /\ result_state = "shared_data dropped"
    /\ result_state' = "dropped"
    /\ shared_data' = IF IsSome(built[1].val.first_row) THEN ArcDrop(shared_data)
                                                       ELSE shared_data
    /\ UNCHANGED <<callVars, payload, built, nonBuildVars>>

InitBuild ==
    /\ IdleCall
    /\ IdleFrame
    /\ IdleLazy
    /\ IdleLookup
    /\ IdleBorrow
    /\ IdleShare
    /\ IdleIter
    /\ IdleTable
    /\ IdleGraph
    /\ IdleDecode
    /\ IdleResult
    /\ payload \in QueryResults
    /\ built = None
    /\ shared_data = NoArc
    /\ result_state = "none"

NextBuild ==
    \/ FromResultPayload
    \/ BuiltFirstRow
    \/ BuiltRowCount
    \/ BuiltColumnCount
    \/ BuiltColumnName
    \/ BuiltColumnDataType
    \/ BuiltColumnType
    \/ BuiltIteratorFromResult
    \/ BuiltIteratorNext
    \/ BuiltIteratorGetRow
    \/ IteratorFree
    \/ DropSharedData
    \/ DropFirstRow

SpecBuild == InitBuild /\ [][NextBuild]_vars

(***************************************************************************)
(* Properties of the construction                                          *)
(***************************************************************************)
\* C13: for a rows response, from_result_payload succeeds without first row
\* when there are no rows (cass_result_first_row returns null), succeeds with
\* the first row when that row decodes (cass_result_first_row returns it),
\* and returns the decode error, and no result, when the first row does not
\* decode.
C13_ConstructionOutcomes ==
    (IsSome(built) /\ payload.kind = "Rows") =>
        LET r == built[1]
        IN  /\ ~aborted
            /\ Len(payload.rows) = 0 =>
                  /\ r.ok /\ r.val.first_row = None
                  /\ op = "cass_result_first_row" => out.ret = None
            /\ (Len(payload.rows) > 0 /\ payload.rows[1]) =>
                  /\ r.ok /\ r.val.first_row = Some([row |-> 1])
                  /\ op = "cass_result_first_row" => out.ret = Some([row |-> 1])
            /\ (Len(payload.rows) > 0 /\ ~payload.rows[1]) =>
                  /\ ~r.ok /\ r.err = "DeserializationError"
                  /\ result_state = "none"

\* a response whose first row does not decode, and whose second does, was
\* handed to from_result_payload
C13_Witness ==
    /\ op = "from_result_payload"
    /\ payload.kind = "Rows"
    /\ Len(payload.rows) > 1 /\ ~payload.rows[1] /\ payload.rows[2]
    /\ ~built[1].ok

\* C14: while the first row can be got through cass_result_first_row the
\* shared allocation is alive; it is deallocated once, and only after the
\* result's own reference and the first row are both dropped; when
\* construction finds no row or fails, the reference taken for the attach is
\* given back.
C14_SharedAllocation ==
    (IsSome(built) /\ payload.kind = "Rows") =>
        LET r == built[1]
            row == r.ok /\ IsSome(r.val.first_row)
        IN  /\ shared_data.released <= 1
            /\ (shared_data.released = 1) <=> (shared_data.strong = 0)
            /\ (result_state = "live" /\ row) => shared_data.strong = 2
            /\ (result_state = "live" /\ ~row) => shared_data.strong = 1
            /\ (result_state = "shared_data dropped" /\ row) => shared_data.strong = 1
            /\ (r.ok /\ shared_data.released = 1) =>
                  \/ result_state = "dropped"
                  \/ result_state = "shared_data dropped" /\ ~row
            /\ ~r.ok => shared_data.strong = 0 /\ shared_data.released = 1
            /\ result_state = "dropped" => shared_data.strong = 0

\* the result's own reference is gone and the first row still holds the
\* allocation
C14_Witness ==
    /\ result_state = "shared_data dropped"
    /\ IsSome(built[1].val.first_row)
    /\ shared_data = [strong |-> 1, released |-> 0]

\* C15: on a result without rows no accessor panics: the column count and
\* the row count are 0, the column type is UNKNOWN and the column data type
\* null at every index, the first row is null, the column name is
\* INDEX_OUT_OF_BOUNDS at every index, and an iterator made by
\* cass_iterator_from_result returns false from every cass_iterator_next and
\* null from cass_iterator_get_row.
C15_NonRowsResult ==
    (IsSome(built) /\ payload.kind = "NonRows") =>
        /\ ~aborted
        /\ built[1].ok
        /\ op \in {"cass_result_column_count", "cass_result_row_count"} => out.ret = 0
        /\ op = "cass_result_column_type" => out.ret = "CASS_VALUE_TYPE_UNKNOWN"
        /\ op \in {"cass_result_column_data_type", "cass_result_first_row"} => out.ret = None
        /\ op = "cass_result_column_name" =>
              out.ret = "CASS_ERROR_LIB_INDEX_OUT_OF_BOUNDS" /\ out.name = None
        /\ op = "cass_iterator_from_result" => out = NewIter
        /\ \A i \in 1..Len(log) : log[i] = FALSE
        /\ op = "cass_iterator_get_row" => out = Null

\* an iterator over a result without rows was advanced twice and then asked
\* for its row
C15_Witness ==
    /\ IsSome(built) /\ payload.kind = "NonRows"
    /\ op = "cass_iterator_get_row"
    /\ Len(log) >= 2
    /\ out = Null

(***************************************************************************)
(* SpecShare: a CassResult behind k shared handles, each held by a thread  *)
(* that reads through it and then frees it.                                *)
(***************************************************************************)
MaxHandles == 3

Threads == 1..MaxHandles

SharedResults ==
    {NonRowsResult} \cup {RowsResult(SubSeq(TestColSpecs, 1, n)) : n \in 0..3}

NoHandle == [pc |-> "none", prev |-> 0]
Handle == [pc |-> "held", prev |-> 0]

\* strong.fetch_sub(1, Release) of Arc's drop: one atomic step that returns
\* the count it found
fetch_sub(a) == [prev |-> a.strong, arc |-> [a EXCEPT !.strong = @ - 1]]

\* Arc::drop_slow: the content is dropped and the allocation given back
drop_slow(a) == [a EXCEPT !.released = @ + 1]

\* (mutation) the handle is freed as a Box would be
cass_result_free_FromBox(a, prev) == drop_slow(a)

\* cass_result_free after its fetch_sub: with Origin = FromArc the
\* allocation is given back by the call that found the count at 1
cass_result_free(a, prev) == IF prev # 1 THEN a ELSE drop_slow(a)

\* what a read through a pointer finds: the content while the allocation is
\* live, anything once it was given back
Deref(a, result, read(_)) ==
    IF a.released = 0 THEN {read(Some(result))}
    ELSE {[panic |-> p, ret |-> r, name |-> None] :
            p \in BOOLEAN, r \in {0, 1, "CASS_VALUE_TYPE_UNKNOWN"}}

ReadColumnCount(t) ==
    /\ result_handles[t].pc = "held"
    /\ \E r \in Deref(result_arc, shared_result[1], cass_result_column_count) :
          /\ op' = "cass_result_column_count"
          /\ aborted' = r.panic
          /\ out' = [thread |-> t, index |-> 0, ret |-> r.ret]
    /\ UNCHANGED <<shareVars, nonShareVars>>

ReadColumnType(t) ==
    /\ result_handles[t].pc = "held"
    /\ \E index \in 0..MaxResultCols :
       \E r \in Deref(result_arc, shared_result[1],
                      LAMBDA p : cass_result_column_type(p, index)) :
          /\ op' = "cass_result_column_type"
          /\ aborted' = r.panic
          /\ out' = [thread |-> t, index |-> index, ret |-> r.ret]
    /\ UNCHANGED <<shareVars, nonShareVars>>

\* cass_result_free of thread t, first half: the count is decremented
ResultFreeDecrement(t) ==
    /\ result_handles[t].pc = "held"
    /\ LET d == fetch_sub(result_arc)
       IN  /\ result_arc' = d.arc
           /\ result_handles' = [result_handles EXCEPT ![t] = [pc |-> "decremented", prev |-> d.prev]]
    /\ op' = "fetch_sub"
    /\ out' = [thread |-> t, index |-> 0, ret |-> 0]
    /\ UNCHANGED <<shared_result, aborted, nonShareVars>>

\* second half: the thread that found the count at 1 gives the allocation back
ResultFree(t) ==
    /\ result_handles[t].pc = "decremented"
    /\ result_arc' = cass_result_free(result_arc, result_handles[t].prev)
    /\ result_handles' = [result_handles EXCEPT ![t] = [pc |-> "freed", prev |-> @.prev]]
    /\ op' = "cass_result_free"
    /\ out' = [thread |-> t, index |-> 0, ret |-> 0]
    /\ UNCHANGED <<shared_result, aborted, nonShareVars>>

InitShare ==
    /\ IdleCall
    /\ IdleFrame
    /\ IdleLazy
    /\ IdleLookup
    /\ IdleBorrow
    /\ IdleIter
    /\ IdleTable
    /\ IdleGraph
    /\ IdleDecode
    /\ IdleResult
    /\ IdleBuild
    /\ IdleBorrow
    /\ IdleLookup
    /\ \E result \in SharedResults : shared_result = Some(result)
    /\ result_handles \in [Threads -> {NoHandle, Handle}]
    /\ \E t \in Threads : result_handles[t] = Handle
    /\ result_arc = [strong |-> Cardinality({t \in Threads : result_handles[t] = Handle}),
                     released |-> 0]

NextShare ==
    \/ \E t \in Threads : ReadColumnCount(t)
    \/ \E t \in Threads : ReadColumnType(t)
    \/ \E t \in Threads : ResultFreeDecrement(t)
    \/ \E t \in Threads : ResultFree(t)

SpecShare == InitShare /\ [][NextShare]_vars

Holding(pc) == {t \in DOMAIN result_handles : result_handles[t].pc = pc}

\* C16: however the cass_result_free calls of the k handles interleave, the
\* count is never negative, the result is deallocated at most once and only
\* by the call that brought the count to zero, it is deallocated once all k
\* calls are over, and what a thread reads through its handle before that is
\* what the result held at construction.
C16_SharedFree ==
    /\ result_arc.strong >= 0
    /\ result_arc.strong = Cardinality(Holding("held"))
    /\ result_arc.released <= 1
    /\ result_arc.released = 1 =>
          /\ result_arc.strong = 0
          /\ \E t \in Holding("freed") : result_handles[t].prev = 1
    /\ (Holding("held") = {} /\ Holding("decremented") = {} /\ Holding("freed") # {})
          => result_arc.released = 1
    /\ Holding("held") # {} => result_arc.released = 0
    /\ op = "cass_result_column_count" =>
          /\ ~aborted
          /\ out.ret = cass_result_column_count(shared_result).ret
    /\ op = "cass_result_column_type" =>
          /\ ~aborted
          /\ out.ret = cass_result_column_type(shared_result, out.index).ret

\* three handles were freed, the calls overlapping: the thread that
\* decremented last deallocated while another was still inside its call
C16_Witness ==
    /\ Cardinality(Holding("freed")) = 2
    /\ Cardinality(Holding("decremented")) = 1
    /\ result_arc.released = 1

(***************************************************************************)
(* SpecBorrow: several iterators over one source.  The source is a result, *)
(* a row or a value of a result, or a schema snapshot; arc is the shared   *)
(* allocation that owns it.                                                *)
(***************************************************************************)
MaxIterators == 2

Slots == 1..MaxIterators

BorrowedValues ==
    [kind : {"Result"}, value : {r \in Results : Len(r.rows) < MaxLen}]
    \cup [kind : {"Row"}, value : Rows]
    \cup [kind : {"Value"},
          value : {ListValue(n) : n \in 0..MaxLen} \cup {MapValue(n) : n \in 0..MaxLen}
                  \cup {ScalarValue}]
    \cup [kind : {"SchemaMeta"}, value : SchemaMetas]

\* the constructor of an iterator over a source of the given kind; each
\* takes its argument as a borrowed pointer and reads it through as_ref
from_source(src) ==
    CASE src.kind = "Result" ->
            [name |-> "cass_iterator_from_result",
             r |-> cass_iterator_from_result(Some(src.value))]
      [] src.kind = "Row" ->
            [name |-> "cass_iterator_from_row",
             r |-> cass_iterator_from_row(Some(src.value))]
      [] src.kind = "Value" ->
            [name |-> "cass_iterator_from_collection",
             r |-> cass_iterator_from_collection(Some(src.value))]
      [] OTHER ->
            [name |-> "cass_iterator_keyspaces_from_schema_meta",
             r |-> cass_iterator_keyspaces_from_schema_meta(Some(src.value))]

\* the accessor of the current element of an iterator of that kind
get_current(kind, iterator) ==
    CASE kind = "Result" ->
            [name |-> "cass_iterator_get_row", r |-> cass_iterator_get_row(iterator)]
      [] kind = "Row" ->
            [name |-> "cass_iterator_get_column", r |-> cass_iterator_get_column(iterator)]
      [] kind = "Value" ->
            [name |-> "cass_iterator_get_value", r |-> cass_iterator_get_value(iterator)]
      [] OTHER ->
            [name |-> "cass_iterator_get_keyspace_meta",
             r |-> cass_iterator_get_keyspace_meta(iterator)]

\* (mutation) the iterator owns a handle to its source and gives it up
cass_iterator_free_Owning(its, i, src) ==
    [iterators |-> [its EXCEPT ![i] = NoIter], source |-> [src EXCEPT !.arc = ArcDrop(@)]]

\* BoxFFI::free(iterator): the Box of the CassIterator is dropped; its
\* fields are references into the source, a position and a decoded row
cass_iterator_free(its, i, src) ==
    [iterators |-> [its EXCEPT ![i] = NoIter], source |-> src]

BorrowCall(name, i, r) ==
    /\ ~aborted
    /\ op' = name
    /\ aborted' = r.panic
    /\ out' = [iterator |-> i, ret |-> r.ret]
    /\ UNCHANGED nonBorrowVars

BorrowNew(i) ==
    /\ source.arc.released = 0
    /\ iterators[i] = NoIter
    /\ LET c == from_source(source)
       IN  /\ BorrowCall(c.name, i, c.r)
           /\ iterators' = [iterators EXCEPT ![i] = c.r.iter]
    /\ UNCHANGED source

\* calls past the end of a source are cut off after the second
BorrowNext(i) ==
    /\ iterators[i] # NoIter
    /\ IsSome(iterators[i].position) => iterators[i].position[1] <= iterators[i].count
    /\ LET r == cass_iterator_next(Some(iterators[i]))
       IN  /\ BorrowCall("cass_iterator_next", i, r)
           /\ iterators' = [iterators EXCEPT ![i] = r.iter]
    /\ UNCHANGED source

BorrowGet(i) ==
    /\ iterators[i] # NoIter
    /\ LET g == get_current(source.kind, Some(iterators[i]))
       IN  /\ BorrowCall(g.name, i, g.r)
           /\ iterators' = [iterators EXCEPT ![i] = g.r.iter]
    /\ UNCHANGED source

BorrowFree(i) ==
    /\ iterators[i] # NoIter
    /\ LET f == cass_iterator_free(iterators, i, source)
       IN  /\ BorrowCall("cass_iterator_free", i, [panic |-> FALSE, ret |-> Null])
           /\ iterators' = f.iterators
           /\ source' = f.source

\* a handle of the owning allocation is freed by its holder, once no
\* iterator borrows from it
SourceFree ==
    /\ ~aborted
    /\ source.arc.strong > 0
    /\ \A i \in Slots : iterators[i] = NoIter
    /\ source' = [source EXCEPT !.arc = ArcDrop(@)]
    /\ op' = IF source.kind = "SchemaMeta" THEN "cass_schema_meta_free" ELSE "cass_result_free"
    /\ out' = Null
    /\ UNCHANGED <<iterators, aborted, nonBorrowVars>>

InitBorrow ==
    /\ IdleCall
    /\ IdleFrame
    /\ IdleLazy
    /\ IdleLookup
    /\ IdleIter
    /\ IdleTable
    /\ IdleGraph
    /\ IdleDecode
    /\ IdleResult
    /\ IdleBuild
    /\ IdleShare
    /\ IdleLookup
    /\ \E v \in BorrowedValues, n \in 1..2 :
          source = [kind |-> v.kind, value |-> v.value,
                    arc |-> [strong |-> n, released |-> 0]]
    /\ iterators = [i \in Slots |-> NoIter]

NextBorrow ==
    \/ \E i \in Slots : BorrowNew(i)
    \/ \E i \in Slots : BorrowNext(i)
    \/ \E i \in Slots : BorrowGet(i)
    \/ \E i \in Slots : BorrowFree(i)
    \/ SourceFree

SpecBorrow == InitBorrow /\ [][NextBorrow]_vars

IteratorOps ==
    {"cass_iterator_from_result", "cass_iterator_from_row", "cass_iterator_from_collection",
     "cass_iterator_keyspaces_from_schema_meta", "cass_iterator_next",
     "cass_iterator_free"} \cup AccessorOps

\* C17: a call that constructs, advances, reads or frees an iterator leaves
\* the source, its content and the count of its owning allocation as they
\* were, leaves every other iterator over the same source (its position and
\* current element) as it was, and a cass_iterator_free releases the one
\* iterator it was given and nothing else.
C17_IteratorsBorrow ==
    [][ op' \in IteratorOps =>
          /\ source' = source
          /\ \A j \in Slots : j # out'.iterator =>
                /\ iterators'[j] = iterators[j]
                /\ iterators[j] # NoIter =>
                      get_current(source.kind, Some(iterators'[j])).r.ret
                        = get_current(source.kind, Some(iterators[j])).r.ret
          /\ op' = "cass_iterator_free" =>
                /\ iterators[out'.iterator] # NoIter
                /\ iterators'[out'.iterator] = NoIter ]_vars

\* of two iterators over one source the first was advanced and freed while
\* the second stands at the second element
C17_Witness ==
    /\ op = "cass_iterator_free"
    /\ out.iterator = 1
    /\ iterators[1] = NoIter
    /\ iterators[2].position = Some(1)
    /\ source.arc = [strong |-> 2, released |-> 0]

(***************************************************************************)
(* SpecLookup: the by-name lookups of the metadata nodes.  A name is the   *)
(* sequence of its bytes; a C string is a name followed by a NUL.          *)
(***************************************************************************)
Quote == 34

\* "a", "A", "Ab": names as the maps of a snapshot hold them
KeyPool == {<<97>>, <<65>>, <<65, 98>>}
NameSets == SUBSET KeyPool

to_ascii_lowercase(c) == IF c \in 65..90 THEN c + 32 ELSE c
to_ascii_uppercase(c) == IF c \in 97..122 THEN c - 32 ELSE c
Lower(name) == [i \in 1..Len(name) |-> to_ascii_lowercase(name[i])]
Upper(name) == [i \in 1..Len(name) |-> to_ascii_uppercase(name[i])]
InQuotes(name) == <<Quote>> \o name \o <<Quote>>

\* the names a caller asks for: the keys, in any case, bare or in quotes,
\* a name no map holds, the empty name and a lone quote
Unquoted == KeyPool \cup {Lower(k) : k \in KeyPool} \cup {Upper(k) : k \in KeyPool} \cup {<<98>>}
AskedNames == Unquoted \cup {InQuotes(k) : k \in Unquoted} \cup {<<>>, <<Quote>>}

\* the buffer of a C string
CStr(name) == name \o <<0>>

MetaNodes ==
    [kind : {"SchemaMeta"}, keyspaces : NameSets]
    \cup [kind : {"KeyspaceMeta"}, tables : NameSets, views : NameSets,
          user_defined_type_data_type : NameSets]
    \cup [kind : {"TableMeta"}, columns_metadata : NameSets, views : NameSets]
    \cup [kind : {"ViewMeta"}, columns_metadata : NameSets]

\* libc strlen: the number of bytes before the first NUL
strlen(s) == (CHOOSE i \in 1..Len(s) : s[i] = 0 /\ \A j \in 1..(i - 1) : s[j] # 0) - 1

\* the first n bytes of the buffer as a &str
ptr_to_cstr_n(ptr, n) == Some(SubSeq(ptr[1], 1, n))

\* HashMap::get: the entry whose key equals the name
HashMap_get(keys, name) == IF name \in keys THEN Some(name) ELSE None

cass_schema_meta_keyspace_by_name_n(schema_meta, keyspace_name, keyspace_name_length) ==
    IF IsNone(keyspace_name) THEN None
    ELSE LET metadata == as_ref(schema_meta)[1]
             keyspace_str == ptr_to_cstr_n(keyspace_name, keyspace_name_length)[1]
         IN  HashMap_get(metadata.keyspaces, keyspace_str)

cass_schema_meta_keyspace_by_name(schema_meta, keyspace_name) ==
    cass_schema_meta_keyspace_by_name_n(schema_meta, keyspace_name, strlen(keyspace_name[1]))

cass_keyspace_meta_user_type_by_name_n(keyspace_meta, type_, type_length) ==
    IF IsNone(type_) THEN None
    ELSE LET user_type_name == ptr_to_cstr_n(type_, type_length)[1]
         IN  HashMap_get(as_ref(keyspace_meta)[1].user_defined_type_data_type, user_type_name)

cass_keyspace_meta_user_type_by_name(keyspace_meta, type_) ==
    cass_keyspace_meta_user_type_by_name_n(keyspace_meta, type_, strlen(type_[1]))

cass_keyspace_meta_table_by_name_n(keyspace_meta, table, table_length) ==
    IF IsNone(table) THEN None
    ELSE LET table_name == ptr_to_cstr_n(table, table_length)[1]
         IN  HashMap_get(as_ref(keyspace_meta)[1].tables, table_name)

cass_keyspace_meta_table_by_name(keyspace_meta, table) ==
    cass_keyspace_meta_table_by_name_n(keyspace_meta, table, strlen(table[1]))

cass_table_meta_column_by_name_n(table_meta, column_name, column_length) ==
    IF IsNone(column_name) THEN None
    ELSE HashMap_get(as_ref(table_meta)[1].columns_metadata,
                     ptr_to_cstr_n(column_name, column_length)[1])

cass_table_meta_column_by_name(table_meta, column_name) ==
    cass_table_meta_column_by_name_n(table_meta, column_name, strlen(column_name[1]))

cass_keyspace_meta_materialized_view_by_name_n(keyspace_meta, view, view_length) ==
    IF IsNone(view) THEN None
    ELSE HashMap_get(as_ref(keyspace_meta)[1].views, ptr_to_cstr_n(view, view_length)[1])

cass_keyspace_meta_materialized_view_by_name(keyspace_meta, view) ==
    cass_keyspace_meta_materialized_view_by_name_n(keyspace_meta, view, strlen(view[1]))

cass_table_meta_materialized_view_by_name_n(table_meta, view, view_length) ==
    IF IsNone(view) THEN None
    ELSE HashMap_get(as_ref(table_meta)[1].views, ptr_to_cstr_n(view, view_length)[1])

cass_table_meta_materialized_view_by_name(table_meta, view) ==
    cass_table_meta_materialized_view_by_name_n(table_meta, view, strlen(view[1]))

cass_materialized_view_meta_column_by_name_n(view_meta, column_name, column_length) ==
    IF IsNone(column_name) THEN None
    ELSE HashMap_get(as_ref(view_meta)[1].columns_metadata,
                     ptr_to_cstr_n(column_name, column_length)[1])

cass_materialized_view_meta_column_by_name(view_meta, column_name) ==
    cass_materialized_view_meta_column_by_name_n(view_meta, column_name, strlen(column_name[1]))

\* the lookups of a node: the function, the map it looks in, its two forms
Lookups(node) ==
    CASE node.kind = "SchemaMeta" ->
           {[fname |-> "cass_schema_meta_keyspace_by_name", keys |-> node.keyspaces]}
      [] node.kind = "KeyspaceMeta" ->
           {[fname |-> "cass_keyspace_meta_table_by_name", keys |-> node.tables],
            [fname |-> "cass_keyspace_meta_user_type_by_name",
             keys |-> node.user_defined_type_data_type],
            [fname |-> "cass_keyspace_meta_materialized_view_by_name", keys |-> node.views]}
      [] node.kind = "TableMeta" ->
           {[fname |-> "cass_table_meta_column_by_name", keys |-> node.columns_metadata],
            [fname |-> "cass_table_meta_materialized_view_by_name", keys |-> node.views]}
      [] node.kind = "Row" -> {}
      [] OTHER ->
           {[fname |-> "cass_materialized_view_meta_column_by_name",
             keys |-> node.columns_metadata]}

by_name(fname, node, name) ==
    CASE fname = "cass_schema_meta_keyspace_by_name" ->
            cass_schema_meta_keyspace_by_name(node, name)
      [] fname = "cass_keyspace_meta_table_by_name" ->
            cass_keyspace_meta_table_by_name(node, name)
      [] fname = "cass_keyspace_meta_user_type_by_name" ->
            cass_keyspace_meta_user_type_by_name(node, name)
      [] fname = "cass_keyspace_meta_materialized_view_by_name" ->
            cass_keyspace_meta_materialized_view_by_name(node, name)
      [] fname = "cass_table_meta_column_by_name" ->
            cass_table_meta_column_by_name(node, name)
      [] fname = "cass_table_meta_materialized_view_by_name" ->
            cass_table_meta_materialized_view_by_name(node, name)
      [] OTHER -> cass_materialized_view_meta_column_by_name(node, name)

by_name_n(fname, node, name, length) ==
    CASE fname = "cass_schema_meta_keyspace_by_name" ->
            cass_schema_meta_keyspace_by_name_n(node, name, length)
      [] fname = "cass_keyspace_meta_table_by_name" ->
            cass_keyspace_meta_table_by_name_n(node, name, length)
      [] fname = "cass_keyspace_meta_user_type_by_name" ->
            cass_keyspace_meta_user_type_by_name_n(node, name, length)
      [] fname = "cass_keyspace_meta_materialized_view_by_name" ->
            cass_keyspace_meta_materialized_view_by_name_n(node, name, length)
      [] fname = "cass_table_meta_column_by_name" ->
            cass_table_meta_column_by_name_n(node, name, length)
      [] fname = "cass_table_meta_materialized_view_by_name" ->
            cass_table_meta_materialized_view_by_name_n(node, name, length)
      [] OTHER -> cass_materialized_view_meta_column_by_name_n(node, name, length)

\* a row: the names of its column specs in order, one value per spec
RowNodes == [kind : {"Row"}, col_specs : UNION {[1..n -> KeyPool] : n \in 0..MaxResultCols}]

starts_with(s, c) == Len(s) > 0 /\ s[1] = c
ends_with(s, c) == Len(s) > 0 /\ s[Len(s)] = c
strip_prefix(s, c) == IF starts_with(s, c) THEN Some(Tail(s)) ELSE None
strip_suffix(s, c) == IF ends_with(s, c) THEN Some(SubSeq(s, 1, Len(s) - 1)) ELSE None
eq_ignore_ascii_case(a, b) == Lower(a) = Lower(b)

\* col_specs.iter().enumerate().find(..).map(|(index, _)| columns.get(index)):
\* the value at the index of the first spec whose name matches
find_column(col_specs, name_str, is_case_sensitive) ==
    LET found == {i \in 1..Len(col_specs) :
                    \/ is_case_sensitive /\ col_specs[i] = name_str
                    \/ ~is_case_sensitive /\ eq_ignore_ascii_case(col_specs[i], name_str)}
    IN  IF found = {} THEN None
        ELSE Some((CHOOSE i \in found : \A j \in found : i <= j) - 1)

cass_row_get_column_by_name_n(row, name, name_length) ==
    LET row_from_raw == as_ref(row)[1]
        name_str == ptr_to_cstr_n(name, name_length)[1]
    IN  IF starts_with(name_str, Quote) /\ ends_with(name_str, Quote)
        THEN LET stripped == strip_prefix(name_str, Quote)[1]
             IN  IF IsNone(strip_suffix(stripped, Quote))
                 THEN MetaPanicked                                  \* unwrap() of None
                 ELSE MetaReturned(find_column(row_from_raw.col_specs,
                                               strip_suffix(stripped, Quote)[1], TRUE))
        ELSE MetaReturned(find_column(row_from_raw.col_specs, name_str, FALSE))

cass_row_get_column_by_name(row, name) ==
    cass_row_get_column_by_name_n(row, name, strlen(name[1]))

RowGetColumnByName ==
    /\ ~aborted
    /\ meta_node.kind = "Row"
    /\ \E name \in AskedNames :
          LET r == cass_row_get_column_by_name(Some(meta_node), Some(CStr(name)))
          IN  /\ aborted' = r.panic
              /\ out' = [form |-> "", keys |-> meta_node.col_specs, name |-> Some(name),
                         ret |-> r.ret]
    /\ op' = "cass_row_get_column_by_name"
    /\ UNCHANGED <<lookupVars, nonLookupVars>>

RowGetColumnByNameN ==
    /\ ~aborted
    /\ meta_node.kind = "Row"
    /\ \E name \in AskedNames, rest \in {<<>>, <<98>>} :
          LET r == cass_row_get_column_by_name_n(Some(meta_node), Some(name \o rest), Len(name))
          IN  /\ aborted' = r.panic
              /\ out' = [form |-> "_n", keys |-> meta_node.col_specs, name |-> Some(name),
                         ret |-> r.ret]
    /\ op' = "cass_row_get_column_by_name_n"
    /\ UNCHANGED <<lookupVars, nonLookupVars>>

\* a lookup in the null-terminated form
ByName ==
    \E l \in Lookups(meta_node), name \in AskedNames :
        /\ op' = l.fname
        /\ out' = [form |-> "", keys |-> l.keys, name |-> Some(name),
                   ret |-> by_name(l.fname, Some(meta_node), Some(CStr(name)))]
        /\ UNCHANGED <<aborted, lookupVars, nonLookupVars>>

\* a lookup in the explicit-length form: of a name inside a longer buffer,
\* or of the null name
ByNameN ==
    \E l \in Lookups(meta_node), name \in AskedNames, rest \in {<<>>, <<98>>} :
        /\ op' = l.fname
        /\ out' = [form |-> "_n", keys |-> l.keys, name |-> Some(name),
                   ret |-> by_name_n(l.fname, Some(meta_node), Some(name \o rest), Len(name))]
        /\ UNCHANGED <<aborted, lookupVars, nonLookupVars>>

ByNameNull ==
    \E l \in Lookups(meta_node) :
        /\ op' = l.fname
        /\ out' = [form |-> "_n", keys |-> l.keys, name |-> None,
                   ret |-> by_name_n(l.fname, Some(meta_node), None, 0)]
        /\ UNCHANGED <<aborted, lookupVars, nonLookupVars>>

InitLookup ==
    /\ IdleCall
    /\ IdleFrame
    /\ IdleLazy
    /\ IdleIter
    /\ IdleTable
    /\ IdleGraph
    /\ IdleDecode
    /\ IdleResult
    /\ IdleBuild
    /\ IdleShare
    /\ IdleBorrow
    /\ meta_node \in MetaNodes \cup RowNodes

NextLookup ==
    \/ ByName
    \/ ByNameN
    \/ ByNameNull
    \/ RowGetColumnByName
    \/ RowGetColumnByNameN

SpecLookup == InitLookup /\ [][NextLookup]_vars

LookupOps ==
    {"cass_schema_meta_keyspace_by_name", "cass_keyspace_meta_table_by_name",
     "cass_keyspace_meta_user_type_by_name", "cass_keyspace_meta_materialized_view_by_name",
     "cass_table_meta_column_by_name", "cass_table_meta_materialized_view_by_name",
     "cass_materialized_view_meta_column_by_name"}

IsQuoted(name) == Len(name) >= 2 /\ name[1] = Quote /\ name[Len(name)] = Quote
Unquote(name) == SubSeq(name, 2, Len(name) - 1)

\* the keys a name stands for: the key equal to what is between the quotes,
\* or every key equal to the bare name up to the case of its letters
Matches(keys, name) ==
    IF IsQuoted(name) THEN {k \in keys : k = Unquote(name)}
    ELSE {k \in keys : Lower(k) = Lower(name)}

\* C18: a by-name lookup, in either form, returns an entry whose key matches
\* the name (without regard to case for a bare name, exactly and without
\* the quotes for a name in double quotes), and null when no key matches.
C18_LookupByName ==
    (op \in LookupOps /\ IsSome(out.name)) =>
        LET m == Matches(out.keys, out.name[1])
        IN  IF m = {} THEN out.ret = None
            ELSE IsSome(out.ret) /\ out.ret[1] \in m

(***************************************************************************)
(* Positional cursors (in Spec): every variant but the result iterator.    *)
(***************************************************************************)
Positional(it) == it.variant \notin {"NoIter", "Result"}

\* the number of elements the cursor walks
Length(it) == IF it.variant = "Row" THEN it.value.columns ELSE it.count

\* C19: a cass_iterator_next call on a positional cursor that returns false
\* leaves the stored position as it was before the call, so that in every
\* state the position of a positional cursor is unset or less than the
\* length of its source.
C19_FailedAdvanceKeepsPosition ==
    [][ Positional(iter') =>
          /\ (op' = "cass_iterator_next" /\ ~aborted' /\ Positional(iter)) =>
                (out' = FALSE => iter'.position = iter.position)
          /\ IsNone(iter'.position) \/ iter'.position[1] < Length(iter') ]_vars

\* the number of elements of the source of a positional cursor
SourceSize(it) ==
    CASE it.variant = "Row" -> it.value.columns
      [] it.variant \in {"Collection", "Tuple", "Map", "Udt"} -> it.value.n
      [] it.variant = "KeyspacesMeta" -> it.value.keyspaces
      [] it.variant = "TablesMeta" -> it.value.tables
      [] it.variant = "UserTypes" -> it.value.user_defined_type_data_type
      [] it.variant = "MaterializedViewsMeta" -> it.value.views
      [] OTHER -> it.value.columns_metadata

\* what the accessors of the cursor's variant return
CurrentElement(it) ==
    CASE it.variant = "Row" -> cass_iterator_get_column(Some(it)).ret
      [] it.variant \in {"Collection", "Tuple"} -> cass_iterator_get_value(Some(it)).ret
      [] it.variant = "Map" ->
            <<cass_iterator_get_map_key(Some(it)).ret, cass_iterator_get_map_value(Some(it)).ret>>
      [] it.variant = "Udt" ->
            <<cass_iterator_get_user_type_field_name(Some(it)).ret,
              cass_iterator_get_user_type_field_value(Some(it)).ret>>
      [] it.variant = "KeyspacesMeta" -> cass_iterator_get_keyspace_meta(Some(it)).ret
      [] it.variant = "TablesMeta" -> cass_iterator_get_table_meta(Some(it)).ret
      [] it.variant = "UserTypes" -> cass_iterator_get_user_type(Some(it)).ret
      [] it.variant = "MaterializedViewsMeta" ->
            cass_iterator_get_materialized_view_meta(Some(it)).ret
      [] OTHER -> cass_iterator_get_column_meta(Some(it)).ret

\* the element at 0-based position k of the cursor's source; a tuple slot or
\* a UDT field that holds no value is the null handle
ElementAt(it, k) ==
    CASE it.variant = "Row" -> <<"column", k>>
      [] it.variant \in {"Collection", "Tuple"} ->
            IF it.value.present[k + 1] THEN <<"item", k>> ELSE Null
      [] it.variant = "Map" -> << <<"key", k>>, <<"value", k>> >>
      [] it.variant = "Udt" ->
            << [err |-> "CASS_OK", name |-> Some(<<"field_name", k>>)],
               IF it.value.present[k + 1] THEN <<"field_value", k>> ELSE Null >>
      [] it.variant = "KeyspacesMeta" -> <<"keyspace", k>>
      [] it.variant = "TablesMeta" -> <<"table", k>>
      [] it.variant = "UserTypes" -> <<"user_type", k>>
      [] it.variant = "MaterializedViewsMeta" -> <<"view", k>>
      [] OTHER -> <<"column_meta", k>>

\* C20: a positional iterator over a source of N elements (a map walked
\* entry by entry, not a flattened one) returns true from its first N
\* cass_iterator_next calls and false from every later one, at once for
\* N = 0, and after its k-th successful call the accessors return the
\* element at position k-1 of the source.
C20_ExactlyNAdvances ==
    (Positional(iter) /\ ~IsFlattenedMap) =>
        LET N == SourceSize(iter)
        IN  /\ \A i \in 1..Len(log) : log[i] = (i <= N)
            /\ (Started /\ LastAdvance) =>
                  CurrentElement(iter) = ElementAt(iter, Len(log) - 1)

\* a map of two entries walked entry by entry to its end: two successful
\* calls, then a failed one
C20_Witness ==
    /\ iter.variant = "Map" /\ iter.value.n = 2
    /\ log = <<TRUE, TRUE, FALSE>>
    /\ ~aborted

(***************************************************************************)
(* SpecLazy: the iterators that decode their source as they go: the rows   *)
(* of a result, the items of a list or set, the entries of a map, and the  *)
(* map walked key by key and value by value.  items[k] tells whether the   *)
(* k-th row, item or entry of the frame decodes.                           *)
(***************************************************************************)
CollectionValues ==
    [present : BOOLEAN, typ : {"List", "Set", "Map", "Int"}, items : SlotFlags]

\* ListlikeIterator::next / MapIterator::next of the driver: the items of
\* the frame in order, each decoded or a deserialization error
ListlikeIterator_next(it) ==
    IF it.consumed >= Len(it.items)
    THEN [iterator |-> it, item |-> None]
    ELSE [iterator |-> [it EXCEPT !.consumed = @ + 1],
          item |-> Some([ok |-> it.items[it.consumed + 1], index |-> it.consumed])]

MapIterator_next(it) == ListlikeIterator_next(it)

\* value.get_non_null::<ListlikeIterator / MapIterator>()
get_non_null_iterator(value, types) ==
    IF ~value.present THEN Err("IsNull")
    ELSE IF value.typ \notin types THEN Err("Typecheck")
    ELSE Ok([items |-> value.items, consumed |-> 0])

CassListlikeIterator_new_from_value(value) ==
    LET listlike_iterator == get_non_null_iterator(value, {"List", "Set"})
    IN  IF ~listlike_iterator.ok THEN listlike_iterator
        ELSE Ok([iterator |-> listlike_iterator.val, current_value |-> None])

\* (mutation) the value that was current is kept when none is produced
CassListlikeIterator_next_KeepsValue(self) ==
    LET r == ListlikeIterator_next(self.iterator)
        next_value == IF IsSome(r.item) /\ r.item[1].ok THEN Some(r.item[1].index) ELSE None
    IN  [self |-> [iterator |-> r.iterator,
                   current_value |-> IF IsSome(next_value) THEN next_value
                                     ELSE self.current_value],
         ret |-> IsSome(next_value)]

CassListlikeIterator_next(self) ==
    LET r == ListlikeIterator_next(self.iterator)
        next_value == IF IsSome(r.item) /\ r.item[1].ok THEN Some(r.item[1].index) ELSE None
    IN  [self |-> [iterator |-> r.iterator, current_value |-> next_value],
         ret |-> IsSome(next_value)]

\* calls counts the next() calls made on the entry cursor
CassMapIterator_new_from_value(value) ==
    LET map_iterator == get_non_null_iterator(value, {"Map"})
    IN  IF ~map_iterator.ok THEN map_iterator
        ELSE Ok([iterator |-> map_iterator.val, current_entry |-> None, calls |-> 0])

CassMapIterator_next(self) ==
    LET r == MapIterator_next(self.iterator)
        new_entry == IF IsSome(r.item) /\ r.item[1].ok THEN Some(r.item[1].index) ELSE None
    IN  [self |-> [iterator |-> r.iterator, current_entry |-> new_entry,
                   calls |-> self.calls + 1],
         ret |-> IsSome(new_entry)]

CassMapCollectionIterator_new_from_value(value) ==
    LET iterator == CassMapIterator_new_from_value(value)
    IN  IF ~iterator.ok THEN iterator
        ELSE Ok([iterator |-> iterator.val, state |-> None])

\* (mutation) the entry cursor is forwarded on every call
CassMapCollectionIterator_next_Forwarding(self) ==
    LET inner == CassMapIterator_next(self.iterator)
        new_state == IF self.state = Some("Key") THEN "Value" ELSE "Key"
    IN  [self |-> [iterator |-> inner.self,
                   state |-> IF inner.ret THEN Some(new_state) ELSE self.state],
         ret |-> inner.ret]

CassMapCollectionIterator_next(self) ==
    LET inner == CassMapIterator_next(self.iterator)
        step == CASE self.state = None ->
                       [new_state |-> "Key", next_result |-> inner.ret, iterator |-> inner.self]
                  [] self.state = Some("Key") ->
                       [new_state |-> "Value", next_result |-> TRUE, iterator |-> self.iterator]
                  [] self.state = Some("Value") ->
                       [new_state |-> "Key", next_result |-> inner.ret, iterator |-> inner.self]
    IN  [self |-> [iterator |-> step.iterator,
                   state |-> IF step.next_result THEN Some(step.new_state) ELSE self.state],
         ret |-> step.next_result]

\* next() of the cursor of the given kind
LazyNext(c) ==
    CASE c.kind = "Result" ->
            LET r == CassResultIterator_next(c.it) IN [self |-> r.iter, ret |-> r.ret]
      [] c.kind = "Listlike" -> CassListlikeIterator_next(c.it)
      [] c.kind = "Map" -> CassMapIterator_next(c.it)
      [] OTHER -> CassMapCollectionIterator_next(c.it)

NewResultIterator ==
    /\ cursor = None
    /\ \E r \in Results :
          LET made == cass_iterator_from_result(Some(r))
          IN  /\ cursor' = Some([kind |-> "Result", it |-> made.iter])
              /\ out' = made.ret
    /\ op' = "cass_iterator_from_result"
    /\ UNCHANGED <<returns, aborted, nonLazyVars>>

NewFromValue(kind, fname, made) ==
    /\ cursor = None
    /\ cursor' = IF made.ok THEN Some([kind |-> kind, it |-> made.val]) ELSE None
    /\ out' = IF made.ok THEN NewIter ELSE made.err
    /\ op' = fname
    /\ UNCHANGED <<returns, aborted, nonLazyVars>>

NewListlikeIterator ==
    \E value \in CollectionValues :
        NewFromValue("Listlike", "CassListlikeIterator::new_from_value",
                     CassListlikeIterator_new_from_value(value))

NewMapIterator ==
    \E value \in CollectionValues :
        NewFromValue("Map", "CassMapIterator::new_from_value",
                     CassMapIterator_new_from_value(value))

NewMapCollectionIterator ==
    \E value \in CollectionValues :
        NewFromValue("MapCollection", "CassMapCollectionIterator::new_from_value",
                     CassMapCollectionIterator_new_from_value(value))

LazyAdvance ==
    /\ IsSome(cursor)
    /\ Len(returns) < MaxCalls
    /\ LET r == LazyNext(cursor[1])
       IN  /\ cursor' = Some([cursor[1] EXCEPT !.it = r.self])
           /\ out' = r.ret
           /\ returns' = Append(returns, r.ret)
    /\ op' = "next"
    /\ UNCHANGED <<aborted, nonLazyVars>>

InitLazy ==
    /\ IdleCall
    /\ IdleFrame
    /\ IdleIter
    /\ IdleTable
    /\ IdleGraph
    /\ IdleDecode
    /\ IdleResult
    /\ IdleBuild
    /\ IdleShare
    /\ IdleBorrow
    /\ IdleLookup
    /\ cursor = None
    /\ returns = <<>>

NextLazy ==
    \/ NewResultIterator
    \/ NewListlikeIterator
    \/ NewMapIterator
    \/ NewMapCollectionIterator
    \/ LazyAdvance

SpecLazy == InitLazy /\ [][NextLazy]_vars

\* what the source of the cursor yields next: None at its end
Upcoming(c) ==
    CASE c.kind = "Result" ->
            IF c.it.arm # "Rows" THEN None
            ELSE TypedRowIterator_next(c.it.value.rows, c.it.consumed).item
      [] c.kind = "Listlike" -> ListlikeIterator_next(c.it.iterator).item
      [] c.kind = "Map" -> MapIterator_next(c.it.iterator).item
      [] OTHER -> MapIterator_next(c.it.iterator.iterator).item

\* the current element of the cursor
Current(c) ==
    CASE c.kind = "Result" -> c.it.current_row
      [] c.kind = "Listlike" -> c.it.current_value
      [] c.kind = "Map" -> c.it.current_entry
      [] OTHER -> c.it.iterator.current_entry

\* C21: when the next row, item or entry fails to decode, the Advance of a
\* result iterator, list-like cursor or map-entry cursor returns false and
\* leaves no current element, exactly as it does at the end of the
\* sequence; the call returns a boolean and nothing else.
C21_DecodeFailureIsEnd ==
    [][ (op' = "next" /\ cursor[1].kind \in {"Result", "Listlike", "Map"}) =>
          LET item == Upcoming(cursor[1])
          IN  /\ out' \in BOOLEAN
              /\ (IsNone(item) \/ ~item[1].ok) =>
                    /\ out' = FALSE
                    /\ Current(cursor'[1]) = None
              /\ (IsSome(item) /\ item[1].ok) => out' = TRUE ]_vars

\* a result iterator whose first row decoded and whose second did not: the
\* second Advance returned false and no row is current
C21_Witness ==
    /\ IsSome(cursor) /\ cursor[1].kind = "Result"
    /\ returns = <<TRUE, FALSE>>
    /\ cursor[1].it.consumed = 2
    /\ ~cursor[1].it.value.rows[2]
    /\ cursor[1].it.current_row = None

(***************************************************************************)
(* Item counts (in SpecDecode)                                             *)
(***************************************************************************)
\* the value is null: its slice is absent, or empty and of a type whose
\* empty slice is turned into null
NullAfterDecode ==
    \/ column.v = None
    \/ EmptyPresent /\ ~NonEmptiable(column.typ)

\* C22: of a present collection slice the item count is its first 4 bytes
\* read as a signed big-endian integer, and decoding fails when there are
\* fewer than 4 bytes or the integer is negative; of a present tuple it is
\* the arity, of a present UDT the number of fields; every other type and
\* every null value has no count, and cass_value_item_count reports 0 for it.
C22_ItemCount ==
    IsSome(raw_value) =>
        LET r == raw_value[1]
            typ == column.typ
        IN  /\ NullAfterDecode => r.ok /\ r.val.item_count = None
            /\ (~NullAfterDecode /\ typ.kind = "Collection") =>
                  LET b == column.v[1]
                  IN  IF Len(b) < 4 \/ b[1] >= 128 THEN ~r.ok
                      ELSE /\ r.ok
                           /\ r.val.item_count
                                = Some(b[1] * 16777216 + b[2] * 65536 + b[3] * 256 + b[4])
            /\ (~NullAfterDecode /\ typ.kind \in {"Tuple", "UserDefinedType"}) =>
                  r.ok /\ r.val.item_count = Some(typ.n)
            /\ (~NullAfterDecode /\ typ.kind \notin {"Collection", "Tuple", "UserDefinedType"}) =>
                  r.ok /\ r.val.item_count = None
            /\ op = "cass_value_item_count" =>
                  /\ ~aborted
                  /\ out.ret = IF r.val.item_count = None THEN 0 ELSE r.val.item_count[1]

\* the item count of a list whose slice starts with the length 256 was asked
C22_Witness ==
    /\ IsSome(raw_value)
    /\ column.typ = Collection("List")
    /\ column.v = Some(<<0, 0, 1, 0>>)
    /\ op = "cass_value_item_count"
    /\ out.ret = 256

\* the number of next() calls that returned true
Trues == Cardinality({i \in 1..Len(returns) : returns[i]})

\* C23: a CassMapCollectionIterator over a map of n entries that all decode
\* returns true from its first 2n next() calls and false from every later
\* one; it is at a Key after an odd number of successful calls and at a
\* Value after an even number, so a call that returns false leaves that
\* unchanged; and the entry cursor it wraps has moved once per call that
\* went to a Key, the calls from a Key to its Value never calling it.
C23_KeyThenValue ==
    (IsSome(cursor) /\ cursor[1].kind = "MapCollection"
        /\ \A i \in 1..Len(cursor[1].it.iterator.iterator.items) :
              cursor[1].it.iterator.iterator.items[i]) =>
        LET self == cursor[1].it
            n == Len(self.iterator.iterator.items)
            k == Trues
        IN  /\ \A i \in 1..Len(returns) : returns[i] = (i <= 2 * n)
            /\ self.state = IF k = 0 THEN None
                            ELSE IF k % 2 = 1 THEN Some("Key") ELSE Some("Value")
            /\ self.iterator.iterator.consumed = (k + 1) \div 2
            /\ self.iterator.calls = (k + 1) \div 2 + (Len(returns) - k)

\* a map of two entries walked to its end: four successful calls, then a
\* failed one that left the iterator at the Value of the last entry
C23_Witness ==
    /\ IsSome(cursor) /\ cursor[1].kind = "MapCollection"
    /\ cursor[1].it.iterator.iterator.items = <<TRUE, TRUE>>
    /\ returns = <<TRUE, TRUE, TRUE, TRUE, FALSE>>
    /\ cursor[1].it.state = Some("Value")

\* C24: an iterator made by cass_iterator_from_map over a map of n entries
\* moves by one entry per Advance: the first n calls return true and no
\* later one does, and after the k-th successful call the key accessor and
\* the value accessor return the key and the value of entry k-1; on a value
\* that is no map cass_iterator_from_map returns the null iterator.
C24_MapByEntry ==
    /\ iter.variant = "Map" =>
          /\ iter.value.tag = "Map"
          /\ \A i \in 1..Len(log) : log[i] = (i <= iter.value.n)
          /\ (Started /\ LastAdvance) =>
                /\ cass_iterator_get_map_key(Some(iter)).ret = <<"key", Len(log) - 1>>
                /\ cass_iterator_get_map_value(Some(iter)).ret = <<"value", Len(log) - 1>>
    /\ (op = "cass_iterator_from_map" /\ ~aborted) =>
          IF out = Null THEN iter = NoIter ELSE iter.variant = "Map"
    /\ \A v \in LegacyValues :
          v.tag # "Map" => cass_iterator_from_map(Some(v)) = Returned(Null, NoIter)

\* the value accessor was called after the second Advance over a map: it
\* returned the value of the second entry
C24_Witness ==
    /\ iter.variant = "Map"
    /\ log = <<TRUE, TRUE>>
    /\ op = "cass_iterator_get_map_value" /\ ~aborted
    /\ out = <<"value", 1>>

(***************************************************************************)
(* Reference counts across a borrowed-handle accessor                      *)
(***************************************************************************)
\* the Weak references to table t: one per live view defined on it
WeakCount(va, t) == Cardinality({v \in DOMAIN va : va[v].strong > 0 /\ va[v].value.base_table.to = t})

FixedColumn(i) ==
    IF i < Len(FixedOrder(table_metadata))
    THEN Some(cass_table_meta.columns_metadata[FixedOrder(table_metadata)[i + 1]])
    ELSE None

\* C26: positional enumeration follows the fixed column order: the column
\* current after the k-th successful advance of a ColumnsMeta iterator over a
\* table is cass_table_meta_column(table, k - 1), and
\* cass_materialized_view_meta_column(view, i) is the i-th column of the
\* view in that same order.
C26_PositionalColumnOrder ==
    /\ (/\ op = "cass_iterator_get_column_meta"
        /\ ~aborted
        /\ IsSome(iter.position)
        /\ iter.position[1] < iter.count) =>
          out.ret = cass_table_meta_column(cass_table_meta, iter.position[1]).ret
    /\ (op = "cass_materialized_view_meta_column" /\ ~aborted) =>
          out.ret = FixedColumn(out.index)

(***************************************************************************)
(* Column of a row by name                                                 *)
(***************************************************************************)
\* the places of the columns a name stands for
MatchingColumns(col_specs, name) ==
    {i \in 1..Len(col_specs) :
        IF IsQuoted(name) THEN col_specs[i] = Unquote(name)
        ELSE Lower(col_specs[i]) = Lower(name)}

LowestMatch(col_specs, name) ==
    IF MatchingColumns(col_specs, name) = {} THEN None
    ELSE Some((CHOOSE i \in MatchingColumns(col_specs, name) :
                  \A j \in MatchingColumns(col_specs, name) : i <= j) - 1)

\* C27: cass_row_get_column_by_name_n (and the null-terminated form built
\* on it) returns for every name, the empty name and the lone double quote
\* included, without aborting: the lowest-index column whose name matches
\* (exactly what is between the quotes for a quoted name, without regard to
\* ASCII case otherwise), or null when no column matches.
C27_ColumnByName ==
    (op \in {"cass_row_get_column_by_name", "cass_row_get_column_by_name_n"}) =>
        /\ ~aborted
        /\ out.ret = LowestMatch(out.keys, out.name[1])

\* every call that returned gave the lowest-index matching column or null
ReturnedColumn ==
    (op \in {"cass_row_get_column_by_name", "cass_row_get_column_by_name_n"} /\ ~aborted) =>
        out.ret = LowestMatch(out.keys, out.name[1])

(***************************************************************************)
(* Rows of a frame (query_result.rs).  The driver's row iterator hands     *)
(* each row of the frame to CassRawRow::deserialize, which decodes its     *)
(* columns one after the other.                                            *)
(***************************************************************************)
MaxFrameRows == 2

\* the column types of create_cass_rows_result
FrameColumnTypes == <<Native("BigInt"), Native("Varint"), Collection("List")>>

\* rows of such a frame: a bigint that is empty, four bytes or eight bytes,
\* a varint, and a list<double> that is null, zero-length or an empty list
FrameRows ==
    {<<b, Some(<<1>>), l>> :
        b \in {Some(<<>>), Some(<<0, 0, 0, 1>>), Some(<<0, 0, 0, 0, 0, 0, 0, 1>>)},
        l \in {None, Some(<<>>), Some(<<0, 0, 0, 0>>)}}

Frames == UNION {[1..n -> FrameRows] : n \in 0..MaxFrameRows}

\* CassRawRow::deserialize: the first column that fails fails the row
CassRawRow_deserialize(typs, row) ==
    LET failed == {c \in 1..Len(row) : ~CassRawValue_deserialize(typs[c], row[c]).ok}
    IN  IF failed = {}
        THEN Ok([columns |-> [c \in 1..Len(row) |-> CassRawValue_deserialize(typs[c], row[c]).val]])
        ELSE LET c == CHOOSE i \in failed : \A j \in failed : i <= j
             IN  Err([kind |-> "ColumnDeserializationFailed", column_index |-> c - 1,
                      err |-> CassRawValue_deserialize(typs[c], row[c]).err])

\* deser_cql_value of the driver, on the values of FrameRows: a zero-length
\* slice of a type other than ascii, blob and text is CqlValue::Empty
deser_cql_value(typ, buf) ==
    IF is_empty(buf) /\ typ \notin {Native("Ascii"), Native("Blob"), Native("Text")}
    THEN Ok("Empty")
    ELSE CASE typ = Native("BigInt") ->
                 IF Len(buf) = 8 THEN Ok(buf) ELSE Err("ByteLengthMismatch")
           [] typ.kind = "Collection" ->
                 IF Len(buf) >= 4 /\ i32_from_be_bytes(SubSeq(buf, 1, 4)) = Len(buf) - 4
                 THEN Ok(SubSeq(buf, 5, Len(buf)))
                 ELSE Err("RawCqlBytesReadError")
           [] OTHER -> Ok(buf)

\* <Row as DeserializeRow>::deserialize of the driver: each column is an
\* Option<CqlValue>
Row_deserialize(typs, row) ==
    LET failed == {c \in 1..Len(row) : IsSome(row[c]) /\ ~deser_cql_value(typs[c], row[c][1]).ok}
    IN  IF failed = {}
        THEN Ok([columns |-> [c \in 1..Len(row) |->
                                IF IsNone(row[c]) THEN None
                                ELSE Some(deser_cql_value(typs[c], row[c][1]).val)]])
        ELSE Err([kind |-> "ColumnDeserializationFailed"])

\* raw_rows.rows_iter::<T>(): row k of the frame decodes when T's
\* deserialize accepts it
rows_iter(T, f) ==
    [k \in 1..Len(f) |->
        IF T = "CassRawRow" THEN CassRawRow_deserialize(FrameColumnTypes, f[k]).ok
        ELSE Row_deserialize(FrameColumnTypes, f[k]).ok]

\* the rows response of the driver for a frame, as first_from_raw_rows_and_metadata
\* reads it
RowsResponse(f) ==
    [kind |-> "Rows", rows |-> rows_iter("CassRawRow", f), maybe_result_metadata |-> None]

(***************************************************************************)
(* SpecFrame: a frame is received, and the result built from it is used as *)
(* in SpecBuild.                                                           *)
(***************************************************************************)
InitFrame ==
    /\ IdleCall
    /\ IdleLazy
    /\ IdleLookup
    /\ IdleBorrow
    /\ IdleShare
    /\ IdleIter
    /\ IdleTable
    /\ IdleGraph
    /\ IdleDecode
    /\ IdleResult
    /\ frame \in Frames
    /\ payload = RowsResponse(frame)
    /\ built = None
    /\ shared_data = NoArc
    /\ result_state = "none"

\* cass_iterator_from_result on the built result: the iterator decodes the
\* rows of the shared buffer as Row
FrameIteratorFromResult ==
    /\ Built
    /\ Construct("cass_iterator_from_result",
                 cass_iterator_from_result(
                     Some([built[1].val EXCEPT !.rows = rows_iter("Row", frame)])))

NextFrame ==
    \/ FromResultPayload
    \/ BuiltFirstRow
    \/ BuiltRowCount
    \/ FrameIteratorFromResult
    \/ BuiltIteratorNext
    \/ BuiltIteratorGetRow
    \/ IteratorFree
    \/ DropSharedData
    \/ DropFirstRow

SpecFrame == InitFrame /\ [][NextFrame]_vars

\* the rows of the frame that hold a zero-length slice for the list column
EmptyCollectionRows ==
    {k \in 1..Len(frame) :
        \E c \in 1..Len(frame[k]) :
            FrameColumnTypes[c].kind = "Collection" /\ frame[k][c] = Some(<<>>)}

\* C28: a zero-length slice that is present for a collection column is not
\* turned into null: its decoding is an error, and so is the decoding of the
\* row that holds it; when that row is the first of the frame no result is
\* built, and when it is a later row the Advance that reaches it returns
\* false and leaves no current row.
C28_EmptyCollectionSlice ==
    \A k \in EmptyCollectionRows :
        /\ \A c \in 1..Len(frame[k]) :
              (FrameColumnTypes[c].kind = "Collection" /\ frame[k][c] = Some(<<>>)) =>
                  /\ ~CassRawValue_deserialize(FrameColumnTypes[c], frame[k][c]).ok
                  /\ CassRawValue_deserialize(FrameColumnTypes[c], frame[k][c]).err.error
                        = "TooFewBytes"
        /\ ~CassRawRow_deserialize(FrameColumnTypes, frame[k]).ok
        /\ ~payload.rows[k]
        /\ (k = 1 /\ IsSome(built)) => ~built[1].ok /\ result_state = "none"
        /\ (k > 1 /\ iter.variant = "Result" /\ Len(log) >= k) => ~log[k]
        /\ (k > 1 /\ iter.variant = "Result" /\ Len(log) = k) => IsNone(iter.current_row)

\* what holds of such a row: its list value and the row itself fail to
\* decode as CassRawValue and CassRawRow, and a frame that begins with it
\* gives no result
EmptyCollectionFirstRow ==
    \A k \in EmptyCollectionRows :
        /\ ~CassRawValue_deserialize(FrameColumnTypes[3], frame[k][3]).ok
        /\ ~CassRawRow_deserialize(FrameColumnTypes, frame[k]).ok
        /\ (k = 1 /\ IsSome(built)) => ~built[1].ok /\ result_state = "none"

(***************************************************************************)
(* Getters on a null value                                                 *)
(***************************************************************************)
\* C29: on a null value of any column type the getters built on
\* get_non_null (float, double, bool, int8, int16, uint32, int32, inet,
\* decimal, duration) and cass_value_get_bytes return NULL_VALUE, while
\* cass_value_get_int64, cass_value_get_uuid and cass_value_get_string return
\* INVALID_VALUE_TYPE when the column type is not one they accept and
\* NULL_VALUE when it is; on the null handle every getter returns NULL_VALUE.
\* Nothing is written in any of these cases.
C29_NullValueGetters ==
    /\ (/\ op \in NullFirstGetters \cup TypeFirstGetters \cup {"cass_value_get_decimal"}
        /\ ~aborted
        /\ IsNone(TheValue.slice)) =>
          /\ out.output = None
          /\ out.ret = IF op \in TypeFirstGetters /\ TheValue.typ \notin Accepted(op)
                       THEN "CASS_ERROR_LIB_INVALID_VALUE_TYPE"
                       ELSE "CASS_ERROR_LIB_NULL_VALUE"
    /\ op = "getter of the null handle" =>
          /\ ~aborted
          /\ out.ret = "CASS_ERROR_LIB_NULL_VALUE"
          /\ out.output = None

\* the 32-bit getter was called on a null value of a bigint column
C29_Witness ==
    /\ op = "cass_value_get_int32"
    /\ ~aborted
    /\ TheValue.typ = Native("BigInt")
    /\ IsNone(TheValue.slice)
    /\ out.ret = "CASS_ERROR_LIB_NULL_VALUE"

(***************************************************************************)
(* The result iterator and the cached first row                            *)
(***************************************************************************)
\* a result was built from the frame, and each row of the frame decodes as
\* the iterator decodes it
AllRowsDecode ==
    /\ Built
    /\ \A k \in 1..Len(frame) : Row_deserialize(FrameColumnTypes, frame[k]).ok

====
